---------------------------- MODULE Spec2Model ----------------------------
(***************************************************************************)
(* A model of the validation core of data-quality-checker:                 *)
(*   src/src/core/validator.py         DataValidator, ValidationIssue      *)
(*   src/src/core/validation_rules.py  ValidationRuleEngine                *)
(*                                                                         *)
(* A dataset is a sequence of columns; a column has a name, a pandas       *)
(* storage type and one cell per row.  Text is a sequence of one-character *)
(* strings so that the regular expressions of the code can be evaluated.   *)
(* Percentages are compared as exact fractions (count * 100 > t * rows),   *)
(* which agrees with the float expression (count / rows) * 100 > t of the  *)
(* code for every row count below 200 and every threshold the code uses.   *)
(***************************************************************************)
EXTENDS Integers, Sequences, FiniteSets, TLC

VARIABLES
    df,        \* the dataset handed to the validator and to the rule engine
    issues,    \* DataValidator.issues
    direct,    \* check methods called directly since the last reset of issues
    returned,  \* what the last call returned: [op |-> ..., val |-> ...]
    first,     \* <<>> or <<the list returned by the first validate_all()>>
    rules,     \* ValidationRuleEngine.rules
    rate_limit_storage,  \* rate_limit.py: client -> the timestamps recorded for it
    now,       \* time.time(), in seconds
    admitted,  \* the requests passed on to the application in the last window
    response,  \* the outcome of the last dispatch()
    webhooks,  \* webhooks.py: the registry, a dict in insertion order
    upload,    \* upload_data(): position in the notification loop
    attempts,  \* the deliveries upload_data() has attempted
    stable,    \* the ids untouched by other requests since the loop began
    others     \* webhook requests served while the loop was suspended

core == <<df, issues, direct, returned, first, rules>>
api == <<rate_limit_storage, now, admitted, response, webhooks, upload, attempts, stable, others>>
vars == <<core, api>>

\* the core library, the rate limiter and the webhook registry at rest, while
\* another part is exercised on its own
CoreIdle ==
    /\ df = <<>>
    /\ issues = <<>>
    /\ direct = 0
    /\ returned = <<>>
    /\ first = <<>>
    /\ rules = <<>>

RateLimitIdle ==
    /\ rate_limit_storage = <<>>
    /\ now = 0
    /\ admitted = <<>>
    /\ response = <<>>

WebhooksIdle ==
    /\ webhooks = <<>>
    /\ upload = <<>>
    /\ attempts = <<>>
    /\ stable = {}
    /\ others = 0

ApiIdle == RateLimitIdle /\ WebhooksIdle

-----------------------------------------------------------------------------
(* Bounds of the model *)

MaxRows == 5
MaxDirect == 1
MaxRules == 2
EngineRows == 2

-----------------------------------------------------------------------------
(* Python values *)

\* Optional[...]: None is <<>>, a value x is <<x>>.
None == <<>>
Some(x) == <<x>>

Min(a, b) == IF a < b THEN a ELSE b
Max(a, b) == IF a > b THEN a ELSE b

Range(s) == {s[i] : i \in DOMAIN s}

RECURSIVE Flatten(_)
Flatten(ss) == IF ss = <<>> THEN <<>> ELSE Head(ss) \o Flatten(Tail(ss))

RECURSIVE SeqSum(_)
SeqSum(s) == IF s = <<>> THEN 0 ELSE Head(s) + SeqSum(Tail(s))

\* the first n elements of s (a slice s[:n])
Take(s, n) == SubSeq(s, 1, Min(Len(s), n))

\* the indices i of s, ascending, with P(s[i])
Where(s, P(_)) == LET RECURSIVE W(_)
                      W(i) == IF i > Len(s) THEN <<>>
                              ELSE (IF P(s[i]) THEN <<i>> ELSE <<>>) \o W(i + 1)
                  IN W(1)

Count(s, P(_)) == Cardinality({i \in DOMAIN s : P(s[i])})

\* sequences over S of length 0..n
SeqsUpTo(S, n) == UNION {[1..k -> S] : k \in 0..n}

\* a / b on Python's own int and float raises ZeroDivisionError for b = 0
PythonDivideRaises(b) == b = 0

\* the division raising for a zero divisor, as on Python's own numbers
NumpyDivideRaisesOnZero(b) == b = 0

\* a / b where a is a numpy scalar (the result of a pandas .sum(), .std() or
\* .iloc[]) gives nan or inf and a RuntimeWarning for b = 0, and never raises
NumpyDivideRaises(b) == FALSE

\* Series.iloc[0] raises IndexError on a Series without elements
IlocRaises(length) == length = 0

-----------------------------------------------------------------------------
(* Text *)

UpperLetters == <<"A","B","C","D","E","F","G","H","I","J","K","L","M",
                  "N","O","P","Q","R","S","T","U","V","W","X","Y","Z">>
LowerLetters == <<"a","b","c","d","e","f","g","h","i","j","k","l","m",
                  "n","o","p","q","r","s","t","u","v","w","x","y","z">>
Digits == <<"0","1","2","3","4","5","6","7","8","9">>

IsLetter(c) == c \in Range(UpperLetters) \cup Range(LowerLetters)
IsDigit(c) == c \in Range(Digits)

\* str.lower()
LowerChar(c) == IF c \in Range(UpperLetters)
                THEN LowerLetters[CHOOSE i \in DOMAIN UpperLetters : UpperLetters[i] = c]
                ELSE c
Lower(s) == [i \in DOMAIN s |-> LowerChar(s[i])]

\* sub in s
Contains(s, sub) == \E i \in 0..(Len(s) - Len(sub)) : SubSeq(s, i + 1, i + Len(sub)) = sub

\* the text as it is embedded in an f-string
RECURSIVE Text(_)
Text(s) ==
    IF s = <<>> THEN ""
    ELSE IF Len(s) = 1 THEN s[1]
    ELSE LET h == Len(s) \div 2
         IN Text(SubSeq(s, 1, h)) \o Text(SubSeq(s, h + 1, Len(s)))

\* str(i) for an integer
RECURSIVE NatChars(_)
NatChars(n) == IF n < 10 THEN <<Digits[n + 1]>>
               ELSE NatChars(n \div 10) \o <<Digits[(n % 10) + 1]>>
IntChars(i) == IF i < 0 THEN <<"-">> \o NatChars(0 - i) ELSE NatChars(i)

-----------------------------------------------------------------------------
(* Cells, columns and the dataset (a pandas DataFrame with a RangeIndex) *)

Null == [t |-> "null", n |-> 0, s |-> <<>>]      \* None / NaN
Num(i) == [t |-> "num", n |-> i, s |-> <<>>]      \* an int, or a float holding i
Str(s) == [t |-> "str", n |-> 0, s |-> s]         \* a Python str

IsNull(v) == v.t = "null"
NotNull(v) == v.t # "null"
IsStr(v) == v.t = "str"
IsNum(v) == v.t = "num"

Column(name, dtype, vals) == [name |-> name, dtype |-> dtype, vals |-> vals]

\* The storage types pandas can give a column holding these cells: text makes
\* it object; numbers make it int64, or float64 once a cell is missing; a
\* column without any value is object (None) or float64 (NaN).
Dtypes(vals) ==
    IF \E i \in DOMAIN vals : IsStr(vals[i]) THEN {"object"}
    ELSE IF \A i \in DOMAIN vals : IsNull(vals[i]) THEN {"object", "float64"}
    ELSE IF \E i \in DOMAIN vals : IsNull(vals[i]) THEN {"float64"}
    ELSE {"int64"}

\* len(df)
NRows(d) == IF d = <<>> THEN 0 ELSE Len(d[1].vals)

\* the row at 1-based position r
Row(d, r) == [c \in DOMAIN d |-> d[c].vals[r]]

IsNumericDtype(c) == c.dtype \in {"int64", "float64"}
IsObjectDtype(c) == c.dtype = "object"

\* df.columns / df.select_dtypes(...).columns, as positions in column order
AllColumns(d) == Where(d, LAMBDA c : TRUE)
NumericColumns(d) == Where(d, IsNumericDtype)
ObjectColumns(d) == Where(d, IsObjectDtype)

NullCount(vals) == Count(vals, IsNull)
NotNullCount(vals) == Count(vals, NotNull)

\* str(x) of a cell of a column: floats print with a fraction
PyStr(v, dtype) ==
    IF IsStr(v) THEN v.s
    ELSE IF IsNull(v) THEN <<"n", "a", "n">>
    ELSE IF dtype = "float64" THEN IntChars(v.n) \o <<".", "0">>
    ELSE IntChars(v.n)

-----------------------------------------------------------------------------
(* Number formatting in descriptions *)

\* round(num / den) to the nearest integer, ties to even, for num >= 0, den > 0
RoundHalfEven(num, den) ==
    LET q == num \div den
        r == num % den
    IN IF 2 * r > den \/ (2 * r = den /\ q % 2 = 1) THEN q + 1 ELSE q

\* f"{(count / total) * 100:.1f}"
Pct1(count, total) ==
    LET t == RoundHalfEven(count * 1000, total)
    IN ToString(t \div 10) \o "." \o ToString(t % 10)

\* f"{(count / total) * 100:.2f}"
Pct2(count, total) ==
    LET h == RoundHalfEven(count * 10000, total)
    IN ToString(h \div 100) \o "." \o ToString((h % 100) \div 10) \o ToString(h % 10)

-----------------------------------------------------------------------------
(* ValidationIssue *)

Severities == {"low", "medium", "high"}

\* ValidationIssue(issue_type, description, severity, row_number, column_name)
ValidationIssue(type, desc, sev, row, col) ==
    [issue_type |-> type, description |-> desc, severity |-> sev,
     row_number |-> row, column_name |-> col]

\* to_dict leaving out the fields that are None
to_dict_dropping_none(issue) ==
    [key \in {"issue_type", "description", "severity"}
              \cup {k \in {"row_number", "column_name"} : issue[k] # None}
        |-> issue[key]]

(* ValidationIssue.to_dict *)
to_dict(issue) ==
    [issue_type |-> issue.issue_type,
     description |-> issue.description,
     severity |-> issue.severity,
     row_number |-> issue.row_number,
     column_name |-> issue.column_name]

-----------------------------------------------------------------------------
(* DataValidator: the ten checks.  Each method appends to self.issues; it *)
(* is modelled as the list after the call, given the list before it.      *)

HighMissingPct == 50
MediumMissingPct == 20

\* the severity with inclusive thresholds (>= 50 high, >= 20 medium)
MissingSeverityInclusive(count, total) ==
    IF count * 100 >= HighMissingPct * total THEN "high"
    ELSE IF count * 100 >= MediumMissingPct * total THEN "medium"
    ELSE "low"

(* DataValidator._check_missing_values *)
MissingSeverity(count, total) ==
    IF count * 100 > HighMissingPct * total THEN "high"
    ELSE IF count * 100 > MediumMissingPct * total THEN "medium"
    ELSE "low"

MissingIssue(d, c) ==
    LET m == NullCount(d[c].vals)
    IN ValidationIssue("missing_values",
           "Column '" \o Text(d[c].name) \o "' has " \o ToString(m)
               \o " missing values (" \o Pct1(m, NRows(d)) \o "%)",
           MissingSeverity(m, NRows(d)), None, Some(d[c].name))

_check_missing_values(iss, d) ==
    LET cols == Where(d, LAMBDA c : NullCount(c.vals) > 0)
    IN iss \o [k \in DOMAIN cols |-> MissingIssue(d, cols[k])]

HighDuplicatePct == 10
RowDetailCap == 10

\* df.duplicated(): the rows equal to an earlier row (positions, ascending)
Duplicated(d) ==
    Where([r \in 1..NRows(d) |-> r],
          LAMBDA r : \E q \in 1..(r - 1) : Row(d, q) = Row(d, r))

\* the row listing without keep=False: the first row of a group is left out
DuplicatedLaterOnly(d) ==
    Where([r \in 1..NRows(d) |-> r],
          LAMBDA r : \E q \in 1..(r - 1) : Row(d, q) = Row(d, r))

\* df.duplicated(keep=False): the rows equal to any other row
DuplicatedKeepFalse(d) ==
    Where([r \in 1..NRows(d) |-> r],
          LAMBDA r : \E q \in 1..NRows(d) : q # r /\ Row(d, q) = Row(d, r))

(* DataValidator._check_duplicates *)
_check_duplicates(iss, d) ==
    LET duplicate_count == Len(Duplicated(d))
        severity == IF duplicate_count * 100 > HighDuplicatePct * NRows(d)
                    THEN "high" ELSE "medium"
        shown == Take(DuplicatedKeepFalse(d), RowDetailCap)
    IN IF duplicate_count > 0
       THEN iss
            \o <<ValidationIssue("duplicates",
                     "Found " \o ToString(duplicate_count) \o " duplicate rows ("
                         \o Pct1(duplicate_count, NRows(d)) \o "% of dataset)",
                     severity, None, None)>>
            \o [k \in DOMAIN shown |->
                   ValidationIssue("duplicate_row",
                       "Row " \o ToString(shown[k]) \o " is a duplicate",
                       "medium", Some(shown[k] - 1), None)]
       ELSE iss

\* pd.to_numeric(x, errors='coerce') gives NaN: a missing cell, or text that
\* is no number (text is a number when it is digits with an optional sign)
IsNumberText(s) ==
    LET body == IF s # <<>> /\ Head(s) \in {"-", "+"} THEN Tail(s) ELSE s
    IN body # <<>> /\ \A i \in DOMAIN body : IsDigit(body[i])

CoercesToNaN(v) == IsNull(v) \/ (IsStr(v) /\ ~IsNumberText(v.s))

TypeSample == 100

(* DataValidator._check_data_types *)
DataTypeIssues(c) ==
    IF \A i \in DOMAIN c.vals : IsNull(c.vals[i]) THEN <<>>
    ELSE IF c.dtype \in {"int64", "float64"}
    THEN LET count == Count(c.vals, LAMBDA v : CoercesToNaN(v) /\ NotNull(v))
         IN IF count > 0
            THEN <<ValidationIssue("type_inconsistency",
                       "Column '" \o Text(c.name) \o "' (numeric) contains "
                           \o ToString(count) \o " non-numeric value(s)",
                       "high", None, Some(c.name))>>
            ELSE <<>>
    ELSE IF c.dtype = "object"
    THEN LET sample_values == Take(SelectSeq(c.vals, NotNull), TypeSample)
             has_strings == \E i \in DOMAIN sample_values : IsStr(sample_values[i])
             has_numbers == \E i \in DOMAIN sample_values : IsNum(sample_values[i])
         IN IF Len(sample_values) > 0 /\ has_strings /\ has_numbers
            THEN <<ValidationIssue("mixed_types",
                       "Column '" \o Text(c.name)
                           \o "' contains mixed data types (strings and numbers)",
                       "medium", None, Some(c.name))>>
            ELSE <<>>
    ELSE <<>>

_check_data_types(iss, d) ==
    iss \o Flatten([c \in DOMAIN d |-> DataTypeIssues(d[c])])

-----------------------------------------------------------------------------
(* Format checks *)

\* one character of [a-zA-Z0-9._%+-] and of [a-zA-Z0-9.-]
IsEmailLocalChar(c) == IsLetter(c) \/ IsDigit(c) \/ c \in {".", "_", "%", "+", "-"}
IsEmailDomainChar(c) == IsLetter(c) \/ IsDigit(c) \/ c \in {".", "-"}

\* re.match(r'^[a-zA-Z0-9._%+-]+@[a-zA-Z0-9.-]+\.[a-zA-Z]{2,}$', s): some
\* split  local @ domain . tld  of the whole text fits the three classes
EmailMatches(s) ==
    \E a \in 2..Len(s) :
        /\ s[a] = "@"
        /\ \A i \in 1..(a - 1) : IsEmailLocalChar(s[i])
        /\ \E b \in (a + 2)..(Len(s) - 2) :
               /\ s[b] = "."
               /\ \A i \in (a + 1)..(b - 1) : IsEmailDomainChar(s[i])
               /\ \A i \in (b + 1)..Len(s) : IsLetter(s[i])

ScanCap == 50

\* the invalid entries a capped scan collects: the first ScanCap positions i
\* with Bad(vals[i]) (the loop breaks once it holds ScanCap of them)
CappedScan(vals, Bad(_)) == Take(Where(vals, Bad), ScanCap)

InvalidEmailCell(v) == NotNull(v) /\ IsStr(v) /\ ~EmailMatches(v.s)

\* the email issues with row_number counted from one
EmailIssuesRowsFromOne(c) ==
    IF (Contains(Lower(c.name), <<"e","m","a","i","l">>)
            \/ Contains(Lower(c.name), <<"m","a","i","l">>))
       /\ c.dtype = "object"
    THEN LET invalid_emails == CappedScan(c.vals, InvalidEmailCell)
             shown == Take(invalid_emails, RowDetailCap)
         IN IF invalid_emails # <<>>
            THEN <<ValidationIssue("invalid_email_format",
                       "Column '" \o Text(c.name) \o "' contains "
                           \o ToString(Len(invalid_emails)) \o " invalid email format(s)",
                       "medium", None, Some(c.name))>>
                 \o [k \in DOMAIN shown |->
                        ValidationIssue("invalid_email",
                            "Row " \o ToString(shown[k]) \o ": Invalid email format '"
                                \o Text(c.vals[shown[k]].s) \o "'",
                            "medium", Some(shown[k]), Some(c.name))]
            ELSE <<>>
    ELSE <<>>

(* DataValidator._validate_emails *)
EmailIssues(c) ==
    IF (Contains(Lower(c.name), <<"e","m","a","i","l">>)
            \/ Contains(Lower(c.name), <<"m","a","i","l">>))
       /\ c.dtype = "object"
    THEN LET invalid_emails == CappedScan(c.vals, InvalidEmailCell)
             shown == Take(invalid_emails, RowDetailCap)
         IN IF invalid_emails # <<>>
            THEN <<ValidationIssue("invalid_email_format",
                       "Column '" \o Text(c.name) \o "' contains "
                           \o ToString(Len(invalid_emails)) \o " invalid email format(s)",
                       "medium", None, Some(c.name))>>
                 \o [k \in DOMAIN shown |->
                        ValidationIssue("invalid_email",
                            "Row " \o ToString(shown[k]) \o ": Invalid email format '"
                                \o Text(c.vals[shown[k]].s) \o "'",
                            "medium", Some(shown[k] - 1), Some(c.name))]
            ELSE <<>>
    ELSE <<>>

_validate_emails(iss, d) ==
    iss \o Flatten([c \in DOMAIN d |-> EmailIssues(d[c])])

MinPhoneDigits == 7
MaxPhoneDigits == 15

\* re.sub(r'[\s\-\(\)]', '', value)
PhoneCleaned(s) == SelectSeq(s, LAMBDA ch : ch \notin {" ", "-", "(", ")"})

InvalidPhoneCell(v) ==
    /\ NotNull(v) /\ IsStr(v)
    /\ LET cleaned == PhoneCleaned(v.s)
       IN ~(/\ cleaned # <<>>
            /\ \A i \in DOMAIN cleaned : IsDigit(cleaned[i])
            /\ MinPhoneDigits <= Len(cleaned)
            /\ Len(cleaned) <= MaxPhoneDigits)

(* DataValidator._validate_phones *)
PhoneIssues(c) ==
    IF (Contains(Lower(c.name), <<"p","h","o","n","e">>)
            \/ Contains(Lower(c.name), <<"t","e","l">>))
       /\ c.dtype = "object"
    THEN LET invalid_phones == CappedScan(c.vals, InvalidPhoneCell)
         IN IF invalid_phones # <<>>
            THEN <<ValidationIssue("invalid_phone_format",
                       "Column '" \o Text(c.name) \o "' contains "
                           \o ToString(Len(invalid_phones)) \o " invalid phone number(s)",
                       "low", None, Some(c.name))>>
            ELSE <<>>
    ELSE <<>>

_validate_phones(iss, d) ==
    iss \o Flatten([c \in DOMAIN d |-> PhoneIssues(d[c])])

\* pd.to_datetime(value) raises ValueError: numbers and the empty text parse
\* (to a timestamp, to NaT); of the other text of the model only a calendar
\* date written dddd-dd-dd parses
IsDateText(s) ==
    /\ Len(s) = 10
    /\ s[5] = "-" /\ s[8] = "-"
    /\ \A i \in {1, 2, 3, 4, 6, 7, 9, 10} : IsDigit(s[i])
    /\ <<s[6], s[7]>> \in {<<"0", m>> : m \in Range(Tail(Digits))}
                             \cup {<<"1", "0">>, <<"1", "1">>, <<"1", "2">>}
    /\ <<s[9], s[10]>> \in {<<"0", m>> : m \in Range(Tail(Digits))}
                              \cup {<<t, u>> : t \in {"1", "2"}, u \in Range(Digits)}

InvalidDateCell(v) == NotNull(v) /\ IsStr(v) /\ v.s # <<>> /\ ~IsDateText(v.s)

(* DataValidator._validate_dates *)
DateIssues(c) ==
    IF (Contains(Lower(c.name), <<"d","a","t","e">>)
            \/ Contains(Lower(c.name), <<"t","i","m","e">>))
       /\ c.dtype = "object"
    THEN LET invalid_dates == CappedScan(c.vals, InvalidDateCell)
         IN IF invalid_dates # <<>>
            THEN <<ValidationIssue("invalid_date_format",
                       "Column '" \o Text(c.name) \o "' contains "
                           \o ToString(Len(invalid_dates)) \o " invalid date format(s)",
                       "medium", None, Some(c.name))>>
            ELSE <<>>
    ELSE <<>>

_validate_dates(iss, d) ==
    iss \o Flatten([c \in DOMAIN d |-> DateIssues(d[c])])

-----------------------------------------------------------------------------
(* Numeric checks.  Quartiles are kept as four times their value, which is *)
(* an integer for integer data (pandas interpolates linearly).             *)

RECURSIVE Insert(_, _)
Insert(x, sorted) ==
    IF sorted = <<>> THEN <<x>>
    ELSE IF x <= Head(sorted) THEN <<x>> \o sorted
    ELSE <<Head(sorted)>> \o Insert(x, Tail(sorted))

RECURSIVE Sorted(_)
Sorted(xs) == IF xs = <<>> THEN <<>> ELSE Insert(Head(xs), Sorted(Tail(xs)))

\* the non-null numbers of a column, in row order
Numbers(vals) == LET nn == SelectSeq(vals, IsNum) IN [i \in DOMAIN nn |-> nn[i].n]

\* 4 * Series.quantile(k / 4), for a column with at least one number
Quantile4(vals, k) ==
    LET xs == Sorted(Numbers(vals))
        pos4 == k * (Len(xs) - 1)          \* 4 * the fractional position
        lo == (pos4 \div 4) + 1
        hi == Min(lo + 1, Len(xs))
        r == pos4 % 4
    IN (4 - r) * xs[lo] + r * xs[hi]

ExtendedFence == 3
NegativeColumns == {<<"a","g","e">>, <<"p","r","i","c","e">>, <<"a","m","o","u","n","t">>,
                    <<"c","o","u","n","t">>, <<"q","u","a","n","t","i","t","y">>, <<"i","d">>}

\* the negative-value test without the gate on extended-range outliers
NumericRangeIssuesUngated(c) ==
    LET negatives == Count(c.vals, LAMBDA v : IsNum(v) /\ v.n < 0)
    IN IF Lower(c.name) \in NegativeColumns /\ negatives > 0
       THEN <<ValidationIssue("negative_values",
                  "Column '" \o Text(c.name) \o "' contains "
                      \o ToString(negatives) \o " negative value(s)",
                  "medium", None, Some(c.name))>>
       ELSE <<>>

(* DataValidator._check_numeric_ranges *)
NumericRangeIssues(c) ==
    IF \E i \in DOMAIN c.vals : NotNull(c.vals[i])
    THEN LET Q1 == Quantile4(c.vals, 1)
             Q3 == Quantile4(c.vals, 3)
             IQR == Q3 - Q1
             lower_bound == Q1 - ExtendedFence * IQR
             upper_bound == Q3 + ExtendedFence * IQR
             outliers == Count(c.vals, LAMBDA v :
                             IsNum(v) /\ (4 * v.n < lower_bound \/ 4 * v.n > upper_bound))
             negatives == Count(c.vals, LAMBDA v : IsNum(v) /\ v.n < 0)
         IN IF outliers > 0 /\ Lower(c.name) \in NegativeColumns /\ negatives > 0
            THEN <<ValidationIssue("negative_values",
                       "Column '" \o Text(c.name) \o "' contains "
                           \o ToString(negatives) \o " negative value(s)",
                       "medium", None, Some(c.name))>>
            ELSE <<>>
    ELSE <<>>

_check_numeric_ranges(iss, d) ==
    LET cols == NumericColumns(d)
    IN iss \o Flatten([k \in DOMAIN cols |-> NumericRangeIssues(d[cols[k]])])

MinOutlierValues == 4
HighOutlierPct == 10

\* the outlier issue with severity high from 10% on
OutlierIssuesInclusive(c, total) ==
    IF NotNullCount(c.vals) > MinOutlierValues
    THEN LET Q1 == Quantile4(c.vals, 1)
             Q3 == Quantile4(c.vals, 3)
             IQR == Q3 - Q1
             lower_bound == 2 * Q1 - 3 * IQR
             upper_bound == 2 * Q3 + 3 * IQR
             outlier_count == Count(c.vals, LAMBDA v :
                                  IsNum(v) /\ (8 * v.n < lower_bound \/ 8 * v.n > upper_bound))
             severity == IF outlier_count * 100 >= HighOutlierPct * total
                         THEN "high" ELSE "medium"
         IN IF IQR > 0 /\ outlier_count > 0
            THEN <<ValidationIssue("outliers",
                       "Column '" \o Text(c.name) \o "' has " \o ToString(outlier_count)
                           \o " outlier(s) (" \o Pct1(outlier_count, total) \o "%)",
                       severity, None, Some(c.name))>>
            ELSE <<>>
    ELSE <<>>

(* DataValidator._detect_outliers: the fence is 1.5 * IQR, so the bounds are *)
(* kept as eight times their value                                           *)
OutlierIssues(c, total) ==
    IF NotNullCount(c.vals) > MinOutlierValues
    THEN LET Q1 == Quantile4(c.vals, 1)
             Q3 == Quantile4(c.vals, 3)
             IQR == Q3 - Q1
             lower_bound == 2 * Q1 - 3 * IQR
             upper_bound == 2 * Q3 + 3 * IQR
             outlier_count == Count(c.vals, LAMBDA v :
                                  IsNum(v) /\ (8 * v.n < lower_bound \/ 8 * v.n > upper_bound))
             severity == IF outlier_count * 100 > HighOutlierPct * total
                         THEN "high" ELSE "medium"
         IN IF IQR > 0 /\ outlier_count > 0
            THEN <<ValidationIssue("outliers",
                       "Column '" \o Text(c.name) \o "' has " \o ToString(outlier_count)
                           \o " outlier(s) (" \o Pct1(outlier_count, total) \o "%)",
                       severity, None, Some(c.name))>>
            ELSE <<>>
    ELSE <<>>

_detect_outliers(iss, d) ==
    LET cols == NumericColumns(d)
    IN iss \o Flatten([k \in DOMAIN cols |-> OutlierIssues(d[cols[k]], NRows(d))])

-----------------------------------------------------------------------------
(* String checks *)

(* DataValidator._check_empty_strings *)
EmptyStringIssues(c) ==
    LET empty_count == Count(c.vals, LAMBDA v : IsStr(v) /\ v.s = <<>>)
    IN IF empty_count > 0
       THEN <<ValidationIssue("empty_strings",
                  "Column '" \o Text(c.name) \o "' contains " \o ToString(empty_count)
                      \o " empty string(s) (consider converting to null)",
                  "low", None, Some(c.name))>>
       ELSE <<>>

_check_empty_strings(iss, d) ==
    LET cols == ObjectColumns(d)
    IN iss \o Flatten([k \in DOMAIN cols |-> EmptyStringIssues(d[cols[k]])])

LengthRatio == 10
LongLength == 100

RECURSIVE SeqMax(_)
SeqMax(xs) == IF Len(xs) = 1 THEN xs[1] ELSE Max(Head(xs), SeqMax(Tail(xs)))
RECURSIVE SeqMin(_)
SeqMin(xs) == IF Len(xs) = 1 THEN xs[1] ELSE Min(Head(xs), SeqMin(Tail(xs)))

(* DataValidator._check_string_lengths *)
StringLengthIssues(c) ==
    IF \E i \in DOMAIN c.vals : NotNull(c.vals[i])
    THEN LET lengths == [i \in DOMAIN c.vals |-> Len(PyStr(c.vals[i], c.dtype))]
             max_length == SeqMax(lengths)
             min_length == SeqMin(lengths)
         IN IF max_length > min_length * LengthRatio /\ max_length > LongLength
            THEN <<ValidationIssue("string_length_variation",
                       "Column '" \o Text(c.name)
                           \o "' has high variation in string lengths (min: "
                           \o ToString(min_length) \o ", max: " \o ToString(max_length) \o ")",
                       "low", None, Some(c.name))>>
            ELSE <<>>
    ELSE <<>>

_check_string_lengths(iss, d) ==
    LET cols == ObjectColumns(d)
    IN iss \o Flatten([k \in DOMAIN cols |-> StringLengthIssues(d[cols[k]])])

-----------------------------------------------------------------------------
(* DataValidator.validate_all, get_summary and validate_dataframe *)

\* the ten checks in the order of validate_all, each appending to the list
RunChecksOutliersFirst(s0, d) ==
    LET s1 == _check_missing_values(s0, d)
        s2 == _check_duplicates(s1, d)
        s3 == _check_data_types(s2, d)
        s4 == _validate_emails(s3, d)
        s5 == _validate_phones(s4, d)
        s6 == _validate_dates(s5, d)
        s7 == _detect_outliers(s6, d)
        s8 == _check_numeric_ranges(s7, d)
        s9 == _check_empty_strings(s8, d)
    IN _check_string_lengths(s9, d)

RunChecks(s0, d) ==
    LET s1 == _check_missing_values(s0, d)
        s2 == _check_duplicates(s1, d)
        s3 == _check_data_types(s2, d)
        s4 == _validate_emails(s3, d)
        s5 == _validate_phones(s4, d)
        s6 == _validate_dates(s5, d)
        s7 == _check_numeric_ranges(s6, d)
        s8 == _detect_outliers(s7, d)
        s9 == _check_empty_strings(s8, d)
    IN _check_string_lengths(s9, d)

validate_all_keeping(iss, d) == RunChecks(iss, d)

(* DataValidator.validate_all: self.issues = [] and then the ten checks *)
validate_all(iss, d) == RunChecks(<<>>, d)

\* validate_all() ends in an exception: the divisions by len(self.df) are
\* int(missing[col]) / len(df) for a column with a missing cell,
\* duplicate_count / len(df) once a duplicate is found and
\* outlier_count / len(df) once an outlier is found
validate_all_raises(d) ==
    \/ \E c \in DOMAIN d : NullCount(d[c].vals) > 0 /\ PythonDivideRaises(NRows(d))
    \/ Len(Duplicated(d)) > 0 /\ NumpyDivideRaises(NRows(d))
    \/ \E c \in DOMAIN d :
           /\ IsNumericDtype(d[c])
           /\ OutlierIssues(d[c], 1) # <<>>
           /\ NumpyDivideRaises(NRows(d))

\* get_summary counting the severities the way it counts the types
get_summary_sparse(iss, d) ==
    [total_issues |-> Len(iss),
     by_severity |-> [sev \in {iss[k].severity : k \in DOMAIN iss} |->
                         Count(iss, LAMBDA i : i.severity = sev)],
     by_type |-> [ty \in {iss[k].issue_type : k \in DOMAIN iss} |->
                     Count(iss, LAMBDA i : i.issue_type = ty)],
     dataset_rows |-> NRows(d),
     dataset_columns |-> Len(d)]

(* DataValidator.get_summary *)
get_summary(iss, d) ==
    [total_issues |-> Len(iss),
     by_severity |-> [sev \in {"low", "medium", "high"} |->
                         Count(iss, LAMBDA i : i.severity = sev)],
     by_type |-> [ty \in {iss[k].issue_type : k \in DOMAIN iss} |->
                     Count(iss, LAMBDA i : i.issue_type = ty)],
     dataset_rows |-> NRows(d),
     dataset_columns |-> Len(d)]

(* validate_dataframe *)
validate_dataframe(d) ==
    LET validator_issues == validate_all(<<>>, d)
    IN <<[k \in DOMAIN validator_issues |-> to_dict(validator_issues[k])],
         get_summary(validator_issues, d)>>

-----------------------------------------------------------------------------
(* ValidationRuleEngine.  A rule and its parameters are Python dicts: a    *)
(* record whose domain holds the keys that are present.                    *)

\* d.get(key): None (<<>>) when the key is absent, else <<value>>
Get(dict, key) == IF key \in DOMAIN dict THEN Some(dict[key]) ELSE None
\* d.get(key, default)
GetOr(dict, key, default) == IF key \in DOMAIN dict THEN dict[key] ELSE default

\* column and column in df.columns : the position of the column, or 0
ColumnIndex(d, column) ==
    IF column # None /\ column[1] # <<>> /\ \E c \in DOMAIN d : d[c].name = column[1]
    THEN CHOOSE c \in DOMAIN d : d[c].name = column[1]
    ELSE 0

\* the value of a number written as text (digits with an optional sign)
RECURSIVE DigitsValue(_)
DigitsValue(s) ==
    IF s = <<>> THEN 0
    ELSE 10 * DigitsValue(SubSeq(s, 1, Len(s) - 1))
         + (CHOOSE k \in 0..9 : Digits[k + 1] = s[Len(s)])

\* pd.to_numeric(x, errors='coerce'): <<the number>>, or <<>> for NaN
ToNumeric(v) ==
    IF IsNum(v) THEN Some(v.n)
    ELSE IF CoercesToNaN(v) THEN None
    ELSE IF Head(v.s) = "-" THEN Some(0 - DigitsValue(Tail(v.s)))
    ELSE IF Head(v.s) = "+" THEN Some(DigitsValue(Tail(v.s)))
    ELSE Some(DigitsValue(v.s))

RuleHighMissingPct == 50

(* ValidationRuleEngine._check_missing_threshold *)
_check_missing_threshold(d, rule_name, params) ==
    LET column == Get(params, "column")
        threshold == GetOr(params, "threshold", 0)
        c == ColumnIndex(d, column)
        missing_count == NullCount(d[c].vals)
    IN IF c # 0 /\ NRows(d) > 0 /\ missing_count * 100 > threshold * NRows(d)
       THEN <<[rule_name |-> rule_name,
               issue_type |-> "missing_threshold_exceeded",
               column_name |-> column[1],
               description |-> "Column '" \o Text(column[1]) \o "' has "
                   \o Pct2(missing_count, NRows(d)) \o "% missing values (threshold: "
                   \o ToString(threshold) \o "%)",
               severity |-> IF missing_count * 100 > RuleHighMissingPct * NRows(d)
                            THEN "high" ELSE "medium"]>>
       ELSE <<>>

\* the range check counting the values equal to a bound as well
_check_range_inclusive(d, rule_name, params) ==
    LET column == Get(params, "column")
        min_val == Get(params, "min")
        max_val == Get(params, "max")
        c == ColumnIndex(d, column)
        numeric_data == [i \in DOMAIN d[c].vals |-> ToNumeric(d[c].vals[i])]
        below_min == Count(numeric_data, LAMBDA x : x # None /\ x[1] <= min_val[1])
        above_max == Count(numeric_data, LAMBDA x : x # None /\ x[1] >= max_val[1])
    IN IF c # 0
       THEN (IF min_val # None /\ below_min > 0
             THEN <<[rule_name |-> rule_name,
                     issue_type |-> "below_minimum",
                     column_name |-> column[1],
                     description |-> "Column '" \o Text(column[1]) \o "' has "
                         \o ToString(below_min) \o " values below minimum "
                         \o ToString(min_val[1]),
                     severity |-> "high"]>>
             ELSE <<>>)
            \o
            (IF max_val # None /\ above_max > 0
             THEN <<[rule_name |-> rule_name,
                     issue_type |-> "above_maximum",
                     column_name |-> column[1],
                     description |-> "Column '" \o Text(column[1]) \o "' has "
                         \o ToString(above_max) \o " values above maximum "
                         \o ToString(max_val[1]),
                     severity |-> "high"]>>
             ELSE <<>>)
       ELSE <<>>

(* ValidationRuleEngine._check_range *)
_check_range(d, rule_name, params) ==
    LET column == Get(params, "column")
        min_val == Get(params, "min")
        max_val == Get(params, "max")
        c == ColumnIndex(d, column)
        numeric_data == [i \in DOMAIN d[c].vals |-> ToNumeric(d[c].vals[i])]
        below_min == Count(numeric_data, LAMBDA x : x # None /\ x[1] < min_val[1])
        above_max == Count(numeric_data, LAMBDA x : x # None /\ x[1] > max_val[1])
    IN IF c # 0
       THEN (IF min_val # None /\ below_min > 0
             THEN <<[rule_name |-> rule_name,
                     issue_type |-> "below_minimum",
                     column_name |-> column[1],
                     description |-> "Column '" \o Text(column[1]) \o "' has "
                         \o ToString(below_min) \o " values below minimum "
                         \o ToString(min_val[1]),
                     severity |-> "high"]>>
             ELSE <<>>)
            \o
            (IF max_val # None /\ above_max > 0
             THEN <<[rule_name |-> rule_name,
                     issue_type |-> "above_maximum",
                     column_name |-> column[1],
                     description |-> "Column '" \o Text(column[1]) \o "' has "
                         \o ToString(above_max) \o " values above maximum "
                         \o ToString(max_val[1]),
                     severity |-> "high"]>>
             ELSE <<>>)
       ELSE <<>>

MinPhoneChars == 10

\* re.match(r'^\+?[\d\s\-\(\)]{10,}$', s)
PhonePatternMatches(s) ==
    LET body == IF s # <<>> /\ Head(s) = "+" THEN Tail(s) ELSE s
    IN /\ Len(body) >= MinPhoneChars
       /\ \A i \in DOMAIN body : IsDigit(body[i]) \/ body[i] \in {" ", "-", "(", ")"}

(* ValidationRuleEngine._check_format *)
_check_format(d, rule_name, params) ==
    LET column == Get(params, "column")
        format_type == GetOr(params, "format", "email")
        c == ColumnIndex(d, column)
        Matches(s) == IF format_type = "email" THEN EmailMatches(s)
                      ELSE PhonePatternMatches(s)
        invalid == Count(d[c].vals,
                       LAMBDA x : NotNull(x) /\ ~Matches(PyStr(x, d[c].dtype)))
    IN IF c # 0 /\ format_type \in {"email", "phone"} /\ invalid > 0
       THEN <<[rule_name |-> rule_name,
               issue_type |-> "invalid_format",
               column_name |-> column[1],
               description |-> "Column '" \o Text(column[1]) \o "' has "
                   \o ToString(invalid) \o " invalid " \o format_type \o " formats",
               severity |-> "medium"]>>
       ELSE <<>>

(* ValidationRuleEngine._check_required_column *)
_check_required_column(d, rule_name, params) ==
    LET column == Get(params, "column")
    IN IF column # None /\ column[1] # <<>> /\ ColumnIndex(d, column) = 0
       THEN <<[rule_name |-> rule_name,
               issue_type |-> "missing_column",
               column_name |-> column[1],
               description |-> "Required column '" \o Text(column[1]) \o "' is missing",
               severity |-> "high"]>>
       ELSE <<>>

(* ValidationRuleEngine._check_unique *)
_check_unique(d, rule_name, params) ==
    LET column == Get(params, "column")
        c == ColumnIndex(d, column)
        vals == d[c].vals
        duplicates == Cardinality({i \in DOMAIN vals : \E j \in 1..(i - 1) : vals[j] = vals[i]})
    IN IF c # 0 /\ duplicates > 0
       THEN <<[rule_name |-> rule_name,
               issue_type |-> "duplicate_values",
               column_name |-> column[1],
               description |-> "Column '" \o Text(column[1]) \o "' has "
                   \o ToString(duplicates) \o " duplicate values",
               severity |-> "medium"]>>
       ELSE <<>>

\* Series.isin(allowed_values + [None, pd.NA]) for one cell: the list is an
\* object array, so the cells are compared as Python objects and the kinds of
\* missing value are kept apart.  None is a member; NaN, the missing cell of a
\* float64 column, equals neither None nor pd.NA and is no member.  (The
\* missing cell of an object column is taken to be None, as the DataFrame
\* constructor keeps it.)
IsIn(x, dtype, allowed_values) ==
    x \in Range(allowed_values) \/ (IsNull(x) /\ dtype # "float64")

\* _check_value_in_list without the test that allowed_values is non-empty
_check_value_in_list_unguarded(d, rule_name, params) ==
    LET column == Get(params, "column")
        allowed_values == GetOr(params, "allowed_values", <<>>)
        c == ColumnIndex(d, column)
        invalid_count == Count(d[c].vals,
                             LAMBDA x : ~IsIn(x, d[c].dtype, allowed_values))
    IN IF c # 0 /\ invalid_count > 0
       THEN <<[rule_name |-> rule_name,
               issue_type |-> "invalid_value",
               column_name |-> column[1],
               description |-> "Column '" \o Text(column[1]) \o "' has "
                   \o ToString(invalid_count) \o " values not in allowed list",
               severity |-> "medium"]>>
       ELSE <<>>

(* ValidationRuleEngine._check_value_in_list: the membership list is *)
(* allowed_values + [None, pd.NA]                                     *)
_check_value_in_list(d, rule_name, params) ==
    LET column == Get(params, "column")
        allowed_values == GetOr(params, "allowed_values", <<>>)
        c == ColumnIndex(d, column)
        invalid_count == Count(d[c].vals,
                             LAMBDA x : ~IsIn(x, d[c].dtype, allowed_values))
    IN IF c # 0 /\ allowed_values # <<>> /\ invalid_count > 0
       THEN <<[rule_name |-> rule_name,
               issue_type |-> "invalid_value",
               column_name |-> column[1],
               description |-> "Column '" \o Text(column[1]) \o "' has "
                   \o ToString(invalid_count) \o " values not in allowed list",
               severity |-> "medium"]>>
       ELSE <<>>

\* the caller's parameter bag after a handler that extends allowed_values in
\* place (allowed_values += [None, pd.NA])
ParametersAfterExtending(rule_type, d, params) ==
    IF /\ rule_type = "value_in_list"
       /\ ColumnIndex(d, Get(params, "column")) # 0
       /\ GetOr(params, "allowed_values", <<>>) # <<>>
    THEN [params EXCEPT !.allowed_values = @ \o <<Null, Null>>]
    ELSE params

\* the caller's parameter bag after the handler of the rule type has run: the
\* handlers only read it with params.get, and _check_value_in_list builds its
\* membership list as a new list (allowed_values + [None, pd.NA])
ParametersAfter(rule_type, d, params) == params

\* the caller's rule list after validate(): a rule dict is only read with
\* rule.get, and its parameter bag is handed to the handler of an enabled rule
RulesAfterValidate(rs, d) ==
    [i \in DOMAIN rs |->
        IF /\ GetOr(rs[i], "enabled", TRUE)
           /\ GetOr(rs[i], "rule_type", "None") \in {"missing_threshold", "range_check",
                  "format_check", "required_column", "unique_check", "value_in_list"}
           /\ "parameters" \in DOMAIN rs[i]
        THEN [rs[i] EXCEPT !.parameters = ParametersAfter(rs[i].rule_type, d, @)]
        ELSE rs[i]]

\* the keys of ValidationRuleEngine.rule_handlers
RuleTypes == {"missing_threshold", "range_check", "format_check",
              "required_column", "unique_check", "value_in_list"}

\* self.rule_handlers[rule_type](df, rule_name, parameters)
Handle(rule_type, d, rule_name, params) ==
    CASE rule_type = "missing_threshold" -> _check_missing_threshold(d, rule_name, params)
      [] rule_type = "range_check" -> _check_range(d, rule_name, params)
      [] rule_type = "format_check" -> _check_format(d, rule_name, params)
      [] rule_type = "required_column" -> _check_required_column(d, rule_name, params)
      [] rule_type = "unique_check" -> _check_unique(d, rule_name, params)
      [] rule_type = "value_in_list" -> _check_value_in_list(d, rule_name, params)

UnknownRuleIssueWarning(rule_name, rule_type) ==
    [rule_name |-> rule_name,
     issue_type |-> "unknown_rule_type",
     description |-> "Unknown rule type: " \o rule_type,
     severity |-> "warning"]

\* the issue appended for a rule type without a handler
UnknownRuleIssue(rule_name, rule_type) ==
    [rule_name |-> rule_name,
     issue_type |-> "unknown_rule_type",
     description |-> "Unknown rule type: " \o rule_type,
     severity |-> "medium"]

\* the turn of the loop that tests `enabled` only on the handler branch
RuleStepEnabledInBranch(acc, rule, d) ==
    LET rule_type == GetOr(rule, "rule_type", "None")
        rule_name == GetOr(rule, "rule_name", "unknown")
        parameters == GetOr(rule, "parameters", [x \in {} |-> x])
    IN IF rule_type \in RuleTypes
       THEN (IF ~GetOr(rule, "enabled", TRUE) THEN acc
             ELSE acc \o Handle(rule_type, d, rule_name, parameters))
       ELSE acc \o <<UnknownRuleIssue(rule_name, rule_type)>>

\* the turn of the loop that puts the rule's issues in front of the list
RuleStepPrepending(acc, rule, d) ==
    LET rule_type == GetOr(rule, "rule_type", "None")
        rule_name == GetOr(rule, "rule_name", "unknown")
        parameters == GetOr(rule, "parameters", [x \in {} |-> x])
    IN IF ~GetOr(rule, "enabled", TRUE) THEN acc
       ELSE IF rule_type \in RuleTypes
       THEN Handle(rule_type, d, rule_name, parameters) \o acc
       ELSE <<UnknownRuleIssue(rule_name, rule_type)>> \o acc

\* one turn of the loop of validate(): the list after the rule
RuleStep(acc, rule, d) ==
    LET rule_type == GetOr(rule, "rule_type", "None")
        rule_name == GetOr(rule, "rule_name", "unknown")
        parameters == GetOr(rule, "parameters", [x \in {} |-> x])
    IN IF ~GetOr(rule, "enabled", TRUE) THEN acc
       ELSE IF rule_type \in RuleTypes
       THEN acc \o Handle(rule_type, d, rule_name, parameters)
       ELSE acc \o <<UnknownRuleIssue(rule_name, rule_type)>>

\* the loop that returns as soon as it has reported an unknown rule type
RECURSIVE ValidateLoopStopping(_, _, _)
ValidateLoopStopping(acc, rs, d) ==
    IF rs = <<>> THEN acc
    ELSE IF GetOr(Head(rs), "enabled", TRUE)
            /\ GetOr(Head(rs), "rule_type", "None") \notin RuleTypes
    THEN RuleStep(acc, Head(rs), d)
    ELSE ValidateLoopStopping(RuleStep(acc, Head(rs), d), Tail(rs), d)

(* ValidationRuleEngine.validate *)
RECURSIVE ValidateLoop(_, _, _)
ValidateLoop(acc, rs, d) ==
    IF rs = <<>> THEN acc ELSE ValidateLoop(RuleStep(acc, Head(rs), d), Tail(rs), d)

validate(rs, d) == ValidateLoop(<<>>, rs, d)

\* validate() ends in an exception: the one division is missing_count / len(df)
\* of _check_missing_threshold, on a numpy count, for a column that exists
validate_raises(rs, d) ==
    \E i \in DOMAIN rs :
        /\ GetOr(rs[i], "enabled", TRUE)
        /\ GetOr(rs[i], "rule_type", "None") = "missing_threshold"
        /\ ColumnIndex(d, Get(GetOr(rs[i], "parameters", [x \in {} |-> x]), "column")) # 0
        /\ NumpyDivideRaises(NRows(d))

-----------------------------------------------------------------------------
(* MLAdvisor.  A recommendation is modelled by its kind and by the values *)
(* its text embeds; a percentage rounded to two places is held in         *)
(* hundredths (total_missing_pct = 2000 stands for 20.0).                 *)

CategoricalColumns(d) == Where(d, LAMBDA c : c.dtype \in {"object", "category"})
DatetimeColumns(d) == Where(d, LAMBDA c : c.dtype = "datetime64[ns]")

\* the names of the columns at the positions cs
Names(d, cs) == [k \in DOMAIN cs |-> d[cs[k]].name]

(* MLAdvisor._analyze_missing_values *)
_analyze_missing_values(d) ==
    LET total_missing == SeqSum([c \in DOMAIN d |-> NullCount(d[c].vals)])
        total_cells == NRows(d) * Len(d)
        total_missing_pct == IF total_cells > 0
                             THEN RoundHalfEven(total_missing * 10000, total_cells)
                             ELSE 0
        high_missing_cols == Where(d, LAMBDA c : 2 * NullCount(c.vals) > NRows(d))
        medium_missing_cols ==
            Where(d, LAMBDA c : /\ 10 * NullCount(c.vals) > NRows(d)
                                /\ 2 * NullCount(c.vals) <= NRows(d))
        shown == Take(medium_missing_cols, 5)
    IN [total_missing |-> total_missing,
        total_missing_pct |-> total_missing_pct,
        recommendations |->
            IF total_missing > 0
            THEN (IF high_missing_cols # <<>>
                  THEN <<[kind |-> "High Missing Values",
                          count |-> Len(high_missing_cols),
                          columns |-> Take(Names(d, high_missing_cols), 3)]>>
                  ELSE <<>>)
                 \o [k \in DOMAIN shown |->
                        [kind |-> "Missing Values",
                         column |-> d[shown[k]].name,
                         col_type |-> IF IsNumericDtype(d[shown[k]])
                                      THEN d[shown[k]].dtype ELSE "categorical"]]
            ELSE <<>>]

\* Series.nunique(): the number of distinct non-null values
nunique(vals) == Cardinality({vals[i] : i \in {j \in DOMAIN vals : NotNull(vals[j])}})

\* Series.value_counts().iloc[0]: the count of the most frequent value
TopCount(vals) ==
    LET CountOf(v) == Count(vals, LAMBDA x : x = v)
        nn == {vals[i] : i \in {j \in DOMAIN vals : NotNull(vals[j])}}
    IN CHOOSE n \in {CountOf(v) : v \in nn} : \A v \in nn : CountOf(v) <= n

(* MLAdvisor._check_data_balance *)
_check_data_balance(d) ==
    LET potential_targets ==
            Where(d, LAMBDA c : c.dtype \in {"object", "int64"} /\ nunique(c.vals) < 20)
        checked == Take(potential_targets, 3)
        Balance(c) ==
            IF nunique(c.vals) > 1
            THEN (IF TopCount(c.vals) * 100 > 80 * NRows(d)
                  THEN <<[kind |-> "Class Imbalance", degree |-> "highly imbalanced",
                          column |-> c.name,
                          max_class_pct |-> Pct1(TopCount(c.vals), NRows(d))]>>
                  ELSE IF TopCount(c.vals) * 100 > 70 * NRows(d)
                  THEN <<[kind |-> "Class Imbalance", degree |-> "moderate imbalance",
                          column |-> c.name,
                          max_class_pct |-> Pct1(TopCount(c.vals), NRows(d))]>>
                  ELSE <<>>)
            ELSE <<>>
    IN Flatten([k \in DOMAIN checked |-> Balance(d[checked[k]])])

\* sums over the rows where both columns hold a number
PairRows(x, y) == {i \in DOMAIN x : IsNum(x[i]) /\ IsNum(y[i])}
RECURSIVE SetSum(_, _)
SetSum(S, f) == IF S = {} THEN 0
                ELSE LET i == CHOOSE j \in S : TRUE IN f[i] + SetSum(S \ {i}, f)

\* n * sum(x*y) - sum(x) * sum(y) over the paired rows: n^2 times the covariance
Covariance(x, y) ==
    LET P == PairRows(x, y)
    IN Cardinality(P) * SetSum(P, [i \in P |-> x[i].n * y[i].n])
       - SetSum(P, [i \in P |-> x[i].n]) * SetSum(P, [i \in P |-> y[i].n])

\* abs(DataFrame.corr()) > 0.8 for two columns: NaN (never above) when fewer
\* than two rows pair up or one of the columns does not vary over them
HighlyCorrelated(x, y) ==
    LET xp == [i \in DOMAIN x |-> IF i \in PairRows(x, y) THEN x[i] ELSE Null]
        yp == [i \in DOMAIN y |-> IF i \in PairRows(x, y) THEN y[i] ELSE Null]
    IN /\ Covariance(xp, xp) > 0
       /\ Covariance(yp, yp) > 0
       /\ 25 * Covariance(xp, yp) * Covariance(xp, yp)
              > 16 * Covariance(xp, xp) * Covariance(yp, yp)

(* MLAdvisor._recommend_feature_engineering *)
_recommend_feature_engineering(d, numeric_cols, categorical_cols, datetime_cols) ==
    LET high_corr_pairs ==
            {<<i, j>> \in (DOMAIN numeric_cols) \X (DOMAIN numeric_cols) :
                i < j /\ HighlyCorrelated(d[numeric_cols[i]].vals, d[numeric_cols[j]].vals)}
        high_cardinality == Where(categorical_cols, LAMBDA c : nunique(d[c].vals) > 20)
        low_cardinality == Where(categorical_cols,
                                 LAMBDA c : 2 <= nunique(d[c].vals) /\ nunique(d[c].vals) <= 10)
    IN (IF datetime_cols # <<>>
        THEN <<[kind |-> "Date Features", count |-> Len(datetime_cols)]>> ELSE <<>>)
       \o (IF Len(numeric_cols) >= 3
           THEN <<[kind |-> "Numeric Features", count |-> Len(numeric_cols)]>>
                \o (IF high_corr_pairs # {}
                    THEN <<[kind |-> "High Correlation",
                            count |-> Cardinality(high_corr_pairs)]>>
                    ELSE <<>>)
           ELSE <<>>)
       \o (IF categorical_cols # <<>> /\ high_cardinality # <<>>
           THEN <<[kind |-> "High Cardinality", count |-> Len(high_cardinality)]>>
           ELSE <<>>)
       \o (IF categorical_cols # <<>> /\ low_cardinality # <<>>
           THEN <<[kind |-> "Encoding Ready", count |-> Len(low_cardinality)]>>
           ELSE <<>>)

(* MLAdvisor._recommend_encoding *)
_recommend_encoding(d, categorical_cols) ==
    LET shown == Take(categorical_cols, 5)
        Encoding(c) ==
            LET unique_count == nunique(c.vals)
            IN [kind |-> "Encoding", column |-> c.name, unique_count |-> unique_count,
                advice |-> IF unique_count = 2 THEN "label encoding"
                           ELSE IF 3 <= unique_count /\ unique_count <= 10
                           THEN "one-hot encoding or ordinal"
                           ELSE IF 11 <= unique_count /\ unique_count <= 50
                           THEN "one-hot, target encoding or embedding"
                           ELSE "high cardinality"]
    IN [k \in DOMAIN shown |-> Encoding(d[shown[k]])]

\* n * sum(x^2) - sum(x)^2 for the numbers xs: n * (n - 1) times the variance
\* that Series.std() takes the root of
VarianceTimes(xs) ==
    Len(xs) * SeqSum([i \in DOMAIN xs |-> xs[i] * xs[i]]) - SeqSum(xs) * SeqSum(xs)

(* MLAdvisor._recommend_normalization *)
_recommend_normalization(d, numeric_cols) ==
    LET shown == Take(numeric_cols, 5)
        Normalization(c) ==
            LET xs == Numbers(c.vals)
                n == Len(xs)
                std_positive == n >= 2 /\ VarianceTimes(xs) > 0
                \* cv = col_std / abs(mean), or inf for a mean of 0
                cv_above_1 == \/ SeqSum(xs) = 0
                              \/ n * VarianceTimes(xs) > (n - 1) * SeqSum(xs) * SeqSum(xs)
            IN IF xs # <<>> /\ std_positive
                  /\ (SeqMax(xs) - SeqMin(xs) > 1000 \/ cv_above_1)
               THEN <<[kind |-> "Normalization", column |-> c.name,
                       col_min |-> SeqMin(xs), col_max |-> SeqMax(xs)]>>
               ELSE <<>>
    IN Flatten([k \in DOMAIN shown |-> Normalization(d[shown[k]])])
       \o (IF numeric_cols # <<>>
           THEN <<[kind |-> "Scaling", count |-> Len(numeric_cols)]>> ELSE <<>>)

(* MLAdvisor._recommend_feature_selection *)
_recommend_feature_selection(d) ==
    LET total_cols == Len(d)
        numeric_cols == NumericColumns(d)
        \* std() < 0.01; the std of fewer than two numbers is NaN
        low_variance ==
            Where(numeric_cols,
                  LAMBDA c : LET xs == Numbers(d[c].vals)
                             IN /\ Len(xs) >= 2
                                /\ 10000 * VarianceTimes(xs) < Len(xs) * (Len(xs) - 1))
    IN (IF total_cols > 50
        THEN <<[kind |-> "Feature Selection", advice |-> "PCA", count |-> total_cols]>>
        ELSE IF total_cols > 20
        THEN <<[kind |-> "Feature Selection", advice |-> "importance", count |-> total_cols]>>
        ELSE <<>>)
       \o (IF low_variance # <<>>
           THEN <<[kind |-> "Low Variance", count |-> Len(low_variance),
                   columns |-> Take([k \in DOMAIN low_variance |->
                                        d[numeric_cols[low_variance[k]]].name], 3)]>>
           ELSE <<>>)

\* the score with inclusive missing-data tiers (>= 50, >= 30, >= 10, >= 5)
ScoreBeforeClampInclusive(missing_pct, num_numeric, num_categorical, total_rows) ==
    100
    - (IF missing_pct >= 5000 THEN 40
       ELSE IF missing_pct >= 3000 THEN 25
       ELSE IF missing_pct >= 1000 THEN 15
       ELSE IF missing_pct >= 500 THEN 5
       ELSE 0)
    - (IF total_rows < 100 THEN 20
       ELSE IF total_rows < 500 THEN 10
       ELSE IF total_rows < 1000 THEN 5
       ELSE 0)
    - (IF num_numeric = 0 THEN 15 ELSE 0)
    + (IF num_numeric > 0 /\ num_categorical > 0 THEN 5 ELSE 0)
    - (IF num_categorical > 10 THEN 10 ELSE 0)

\* the score with cumulative tiers: every tier whose test holds is subtracted
ScoreBeforeClampCumulative(missing_pct, num_numeric, num_categorical, total_rows) ==
    100
    - (IF missing_pct > 5000 THEN 40 ELSE 0) - (IF missing_pct > 3000 THEN 25 ELSE 0)
    - (IF missing_pct > 1000 THEN 15 ELSE 0) - (IF missing_pct > 500 THEN 5 ELSE 0)
    - (IF total_rows < 100 THEN 20 ELSE 0) - (IF total_rows < 500 THEN 10 ELSE 0)
    - (IF total_rows < 1000 THEN 5 ELSE 0)
    - (IF num_numeric = 0 THEN 15 ELSE 0)
    + (IF num_numeric > 0 /\ num_categorical > 0 THEN 5 ELSE 0)
    - (IF num_categorical > 10 THEN 10 ELSE 0)

\* the score before max(0, min(100, score))
ScoreBeforeClamp(missing_pct, num_numeric, num_categorical, total_rows) ==
    100
    - (IF missing_pct > 5000 THEN 40
       ELSE IF missing_pct > 3000 THEN 25
       ELSE IF missing_pct > 1000 THEN 15
       ELSE IF missing_pct > 500 THEN 5
       ELSE 0)
    - (IF total_rows < 100 THEN 20
       ELSE IF total_rows < 500 THEN 10
       ELSE IF total_rows < 1000 THEN 5
       ELSE 0)
    - (IF num_numeric = 0 THEN 15 ELSE 0)
    + (IF num_numeric > 0 /\ num_categorical > 0 THEN 5 ELSE 0)
    - (IF num_categorical > 10 THEN 10 ELSE 0)

\* _calculate_readiness_score without the upper clamp
_calculate_readiness_score_unclamped(missing_analysis, num_numeric, num_categorical, total_rows) ==
    Max(0, ScoreBeforeClamp(missing_analysis.total_missing_pct, num_numeric,
                            num_categorical, total_rows))

(* MLAdvisor._calculate_readiness_score *)
_calculate_readiness_score(missing_analysis, num_numeric, num_categorical, total_rows) ==
    Max(0, Min(100, ScoreBeforeClamp(missing_analysis.total_missing_pct, num_numeric,
                                     num_categorical, total_rows)))

\* _get_readiness_level with exclusive lower bounds
_get_readiness_level_exclusive(score) ==
    IF score > 80 THEN "Excellent - Ready for ML"
    ELSE IF score > 65 THEN "Good - Minor preparation needed"
    ELSE IF score > 50 THEN "Fair - Moderate preparation required"
    ELSE IF score > 35 THEN "Poor - Significant preparation needed"
    ELSE "Very Poor - Major data issues"

(* MLAdvisor._get_readiness_level *)
_get_readiness_level(score) ==
    IF score >= 80 THEN "Excellent - Ready for ML"
    ELSE IF score >= 65 THEN "Good - Minor preparation needed"
    ELSE IF score >= 50 THEN "Fair - Moderate preparation required"
    ELSE IF score >= 35 THEN "Poor - Significant preparation needed"
    ELSE "Very Poor - Major data issues"

(* MLAdvisor.analyze *)
analyze(d) ==
    LET total_rows == NRows(d)
        total_cols == Len(d)
        numeric_cols == NumericColumns(d)
        categorical_cols == CategoricalColumns(d)
        datetime_cols == DatetimeColumns(d)
        missing_analysis == _analyze_missing_values(d)
        readiness_score ==
            _calculate_readiness_score(missing_analysis, Len(numeric_cols),
                                       Len(categorical_cols), total_rows)
    IN [readiness_score |-> readiness_score,
        readiness_level |-> _get_readiness_level(readiness_score),
        recommendations |->
            missing_analysis.recommendations
            \o _check_data_balance(d)
            \o _recommend_feature_engineering(d, numeric_cols, categorical_cols,
                                              datetime_cols)
            \o _recommend_encoding(d, categorical_cols)
            \o _recommend_normalization(d, numeric_cols)
            \o _recommend_feature_selection(d),
        summary |-> [total_rows |-> total_rows,
                     total_columns |-> total_cols,
                     numeric_columns |-> Len(numeric_cols),
                     categorical_columns |-> Len(categorical_cols),
                     datetime_columns |-> Len(datetime_cols),
                     missing_data_pct |-> missing_analysis.total_missing_pct]]

\* analyze() ends in an exception: total_missing / total_cells is taken for
\* total_cells > 0, value_counts.iloc[0] / len(df) for a candidate column with
\* more than one distinct value, col_std / abs(mean) for a mean other than 0
analyze_raises(d) ==
    LET potential_targets ==
            Where(d, LAMBDA c : c.dtype \in {"object", "int64"} /\ nunique(c.vals) < 20)
        checked == Take(potential_targets, 3)
        shown == Take(NumericColumns(d), 5)
    IN \/ NRows(d) * Len(d) > 0 /\ NumpyDivideRaises(NRows(d) * Len(d))
       \/ \E k \in DOMAIN checked :
              /\ nunique(d[checked[k]].vals) > 1
              /\ \/ IlocRaises(nunique(d[checked[k]].vals))
                 \/ NumpyDivideRaises(NRows(d))
       \/ \E k \in DOMAIN shown :
              LET xs == Numbers(d[shown[k]].vals)
              IN /\ Len(xs) >= 2 /\ VarianceTimes(xs) > 0
                 /\ SeqSum(xs) # 0
                 /\ NumpyDivideRaises(SeqSum(xs))

(* get_ml_recommendations *)
get_ml_recommendations(d) == analyze(d)

-----------------------------------------------------------------------------
(* The datasets of the model *)

EmailText == <<"a", "@", "b", ".", "c", "o">>
LongText == [i \in 1..(LongLength + 1) |-> "x"]

\* every DataFrame with these column names whose rows are the given tuples
Frames(names, rows) ==
    LET ColVals(c) == [r \in DOMAIN rows |-> rows[r][c]]
    IN {[c \in DOMAIN names |-> Column(names[c], dts[c], ColVals(c))] :
           dts \in {f \in [DOMAIN names -> {"int64", "float64", "object"}] :
                       \A c \in DOMAIN names : f[c] \in Dtypes(ColVals(c))}}

\* the selections of at most n elements of s, each in the order of s
Selections(s, n) ==
    {LET idx == Where([i \in DOMAIN s |-> i], LAMBDA i : i \in I)
     IN [k \in DOMAIN idx |-> s[idx[k]]] :
        I \in {J \in SUBSET DOMAIN s : Cardinality(J) <= n}}

\* The validator's datasets are the row selections of this table of a number
\* and a text cell per row, under each of the names of the text column.
ReferenceRows ==
    <<<<Num(-1), Str(<<>>)>>,
      <<Num(-1), Str(<<>>)>>,
      <<Num(0), Str(LongText)>>,
      <<Num(0), Null>>,
      <<Num(10), Num(7)>>,
      <<Null, Str(EmailText)>>>>

TextNames == {<<"E", "m", "a", "i", "l">>,
              <<"m", "a", "i", "l", "_", "p", "h", "o", "n", "e", "_", "d", "a", "t", "e">>}

ValidatorDatasets ==
    UNION {Frames(<<<<"a", "g", "e">>, nm>>, rows) :
              nm \in TextNames, rows \in Selections(ReferenceRows, MaxRows)}

\* The end-to-end dataset: id, name, email, age over five rows.  The age column
\* holds numbers, a null and a text, which pandas stores as object.
EndToEndDataset ==
    <<Column(<<"i", "d">>, "int64",
             <<Num(1),
               Num(2),
               Num(3),
               Num(4),
               Num(5)>>),
      Column(<<"n", "a", "m", "e">>, "object",
             <<Str(<<"A", "l", "i", "c", "e">>),
               Str(<<"B", "o", "b">>),
               Str(<<"C", "h", "a", "r", "l", "i", "e">>),
               Null,
               Str(<<"E", "v", "e">>)>>),
      Column(<<"e", "m", "a", "i", "l">>, "object",
             <<Str(<<"a", "l", "i", "c", "e", "@", "x", ".", "c", "o", "m">>),
               Null,
               Str(<<"b", "a", "d", "-", "e", "m", "a", "i", "l">>),
               Str(<<"d", "a", "v", "i", "d", "@", "x", ".", "c", "o", "m">>),
               Str(<<"e", "v", "e", "@", "x", ".", "c", "o", "m">>)>>),
      Column(<<"a", "g", "e">>, "object",
             <<Num(30),
               Num(27),
               Str(<<"n", "o", "t", "_", "a", "_", "n", "u", "m", "b", "e", "r">>),
               Num(45),
               Null>>)>>

\* one email-named text column with one more invalid address than the scan cap
WideEmailDataset ==
    <<Column(<<"e", "m", "a", "i", "l">>, "object", [r \in 1..(ScanCap + 1) |-> Str(<<"x">>)])>>

\* ten rows of one number column, the second row repeating the first
TenRowDataset ==
    <<Column(<<"k">>, "int64", [r \in 1..10 |-> Num(IF r = 1 THEN 2 ELSE r)])>>

\* listed columns with a negative value and no value beyond the extended
\* range (age: the lower bound is exactly -5)
NegativeNoOutlierDataset ==
    <<Column(<<"a", "g", "e">>, "int64", <<Num(25), Num(30), Num(-5), Num(40), Num(35)>>),
      Column(<<"a", "m", "o", "u", "n", "t">>, "int64",
             <<Num(-100), Num(50), Num(200), Num(300), Num(150)>>)>>

\* eleven rows: 1..10 and 1000, and a column that is not listed for the
\* negative-value test holding one negative value far from the others
OutlierDataset ==
    <<Column(<<"v", "a", "l", "u", "e", "s">>, "int64",
             [r \in 1..11 |-> Num(IF r = 11 THEN 1000 ELSE r)]),
      Column(<<"s", "c", "o", "r", "e">>, "int64",
             [r \in 1..11 |-> Num(IF r = 1 THEN -50 ELSE 0)])>>

\* ten rows of a listed column (in capitals) with one outlier: exactly 10%
TenPercentOutlierDataset ==
    <<Column(<<"A", "g", "e">>, "int64", [r \in 1..10 |-> Num(IF r = 1 THEN -50 ELSE r - 1)])>>

ScenarioDatasets ==
    {EndToEndDataset, WideEmailDataset, TenRowDataset,
     NegativeNoOutlierDataset, OutlierDataset, TenPercentOutlierDataset}

-----------------------------------------------------------------------------
(* The life of one DataValidator over the dataset *)

\* held: the number of issues the validator held when the call began
NoReturn == [op |-> "none", val |-> <<>>, held |-> 0]

InitValidator ==
    /\ ApiIdle
    /\ df \in ValidatorDatasets \cup ScenarioDatasets
    /\ issues = <<>>
    /\ direct = 0
    /\ returned = NoReturn
    /\ first = <<>>
    /\ rules = <<>>

(* DataValidator.__init__ : a new validator over the same dataset *)
NewValidator ==
    /\ issues' = <<>>
    /\ direct' = 0
    /\ returned' = NoReturn
    /\ UNCHANGED <<df, first, rules>>
    /\ UNCHANGED api

ValidateAll ==
    /\ issues' = validate_all(issues, df)
    /\ direct' = 0
    /\ returned' = [op |-> "validate_all", val |-> issues', held |-> Len(issues),
                    error |-> validate_all_raises(df)]
    /\ first' = IF first = <<>> THEN <<issues'>> ELSE first
    /\ UNCHANGED <<df, rules>>
    /\ UNCHANGED api

\* a check method called on its own
DirectCheck(check(_, _)) ==
    /\ direct < MaxDirect
    /\ issues' = check(issues, df)
    /\ direct' = direct + 1
    /\ returned' = NoReturn
    /\ UNCHANGED <<df, first, rules>>
    /\ UNCHANGED api

CheckMissingValues == DirectCheck(_check_missing_values)
CheckDuplicates == DirectCheck(_check_duplicates)
CheckDataTypes == DirectCheck(_check_data_types)
ValidateEmails == DirectCheck(_validate_emails)
ValidatePhones == DirectCheck(_validate_phones)
ValidateDates == DirectCheck(_validate_dates)
CheckNumericRanges == DirectCheck(_check_numeric_ranges)
DetectOutliers == DirectCheck(_detect_outliers)
CheckEmptyStrings == DirectCheck(_check_empty_strings)
CheckStringLengths == DirectCheck(_check_string_lengths)

GetSummary ==
    /\ returned' = [op |-> "get_summary", val |-> get_summary(issues, df),
                    held |-> Len(issues)]
    /\ UNCHANGED <<df, issues, direct, first, rules>>
    /\ UNCHANGED api

ValidateDataframe ==
    /\ returned' = [op |-> "validate_dataframe", val |-> validate_dataframe(df),
                    held |-> 0, error |-> validate_all_raises(df)]
    /\ UNCHANGED <<df, issues, direct, first, rules>>
    /\ UNCHANGED api

NextValidator ==
    \/ NewValidator
    \/ ValidateAll
    \/ CheckMissingValues
    \/ CheckDuplicates
    \/ CheckDataTypes
    \/ ValidateEmails
    \/ ValidatePhones
    \/ ValidateDates
    \/ CheckNumericRanges
    \/ DetectOutliers
    \/ CheckEmptyStrings
    \/ CheckStringLengths
    \/ GetSummary
    \/ ValidateDataframe

SpecValidator == InitValidator /\ [][NextValidator]_vars

-----------------------------------------------------------------------------
(* The rule engine over a dataset, beside validate_dataframe *)

EmailColumn == <<"E", "m", "a", "i", "l">>
AgeColumn == <<"a", "g", "e">>
AbsentColumn == <<"z", "i", "p">>

NoParams == [x \in {} |-> x]

Rule(name, type, enabled, params) ==
    [rule_name |-> name, rule_type |-> type, enabled |-> enabled, parameters |-> params]

\* the rules an external configuration store may hand to the engine
RuleCatalogue ==
    {Rule("mt", "missing_threshold", TRUE, [column |-> EmailColumn, threshold |-> 40]),
     Rule("mt_no_threshold", "missing_threshold", TRUE, [column |-> EmailColumn]),
     Rule("mt_no_column", "missing_threshold", TRUE, [threshold |-> 40]),
     Rule("rc", "range_check", TRUE, [column |-> AgeColumn, min |-> 0, max |-> 5]),
     Rule("rc_no_column", "range_check", TRUE, [min |-> 0, max |-> 5]),
     Rule("rc_min", "range_check", TRUE, [column |-> AgeColumn, min |-> -1]),
     Rule("rc_max", "range_check", TRUE, [column |-> AgeColumn, max |-> 10]),
     Rule("rc_text", "range_check", TRUE, [column |-> EmailColumn, min |-> 0, max |-> 5]),
     Rule("fc_phone", "format_check", TRUE, [column |-> EmailColumn, format |-> "phone"]),
     Rule("fc_no_format", "format_check", TRUE, [column |-> EmailColumn]),
     Rule("fc_no_column", "format_check", TRUE, [format |-> "email"]),
     Rule("req", "required_column", TRUE, [column |-> AbsentColumn]),
     Rule("req_no_column", "required_column", TRUE, NoParams),
     Rule("uq", "unique_check", TRUE, [column |-> AgeColumn]),
     Rule("uq_no_column", "unique_check", TRUE, NoParams),
     Rule("vil", "value_in_list", TRUE,
          [column |-> EmailColumn, allowed_values |-> <<Str(EmailText)>>]),
     Rule("vil_no_allowed", "value_in_list", TRUE, [column |-> EmailColumn]),
     Rule("vil_no_column", "value_in_list", TRUE, [allowed_values |-> <<Str(EmailText)>>]),
     [rule_name |-> "bogus", rule_type |-> "bogus"],
     Rule("mt_off", "missing_threshold", FALSE, [column |-> EmailColumn]),
     Rule("bogus_off", "bogus", FALSE, NoParams)}

\* The engine's datasets are the row selections of this table.
EngineRowTable ==
    <<<<Num(-1), Null>>,
      <<Num(-1), Str(<<>>)>>,
      <<Num(10), Str(EmailText)>>>>

EngineDatasets ==
    UNION {Frames(<<AgeColumn, EmailColumn>>, rows) :
              rows \in Selections(EngineRowTable, EngineRows)}

\* ValidationRuleEngine(rules) is built over each list of catalogue rules
Init ==
    /\ ApiIdle
    /\ df \in EngineDatasets
    /\ rules \in SeqsUpTo(RuleCatalogue, MaxRules)
    /\ issues = <<>>
    /\ direct = 0
    /\ returned = NoReturn
    /\ first = <<>>

Validate ==
    /\ returned' = [op |-> "validate", val |-> validate(rules, df), held |-> 0,
                    error |-> validate_raises(rules, df)]
    /\ rules' = RulesAfterValidate(rules, df)
    /\ UNCHANGED <<df, issues, direct, first>>
    /\ UNCHANGED api

(* MLAdvisor(df).analyze() *)
Analyze ==
    /\ returned' = [op |-> "analyze", val |-> analyze(df), held |-> 0,
                    error |-> analyze_raises(df)]
    /\ UNCHANGED <<df, issues, direct, first, rules>>
    /\ UNCHANGED api

Next ==
    \/ Validate
    \/ ValidateDataframe
    \/ Analyze

Spec == Init /\ [][Next]_vars

-----------------------------------------------------------------------------
(* MLAdvisor over a dataset, and its scoring functions over their inputs *)

MaxCategorical == 11

\* total_missing_pct values (in hundredths) on both sides of each tier
MissingPcts == {0, 500, 501, 1000, 1001, 3000, 3001, 5000, 5001, 10000}
\* row counts on both sides of each tier
RowCounts == {0, 99, 100, 499, 500, 999, 1000, 2000}

\* 64 rows of one text column with 20 distinct values, the dominant one in 45
\* rows (70.3%)
TwentyClassDataset ==
    <<Column(<<"l", "a", "b", "e", "l">>, "object",
             [r \in 1..64 |-> Str(IF r <= 45 THEN <<"a">> ELSE [i \in 1..(r - 45) |-> "b"])])>>

InitAdvisor ==
    /\ ApiIdle
    /\ df \in EngineDatasets \cup {TwentyClassDataset}
    /\ rules = <<>>
    /\ issues = <<>>
    /\ direct = 0
    /\ returned = NoReturn
    /\ first = <<>>

GetMlRecommendations ==
    /\ returned' = [op |-> "get_ml_recommendations", val |-> get_ml_recommendations(df),
                    held |-> 0, error |-> analyze_raises(df)]
    /\ UNCHANGED <<df, issues, direct, first, rules>>
    /\ UNCHANGED api

CalculateReadinessScore ==
    \E missing_pct \in MissingPcts, num_numeric \in {0, 1},
       num_categorical \in {0, 1, MaxCategorical - 1, MaxCategorical},
       total_rows \in RowCounts :
        /\ returned' =
               [op |-> "_calculate_readiness_score",
                args |-> <<missing_pct, num_numeric, num_categorical, total_rows>>,
                val |-> _calculate_readiness_score([total_missing_pct |-> missing_pct],
                                                   num_numeric, num_categorical, total_rows),
                held |-> 0]
        /\ UNCHANGED <<df, issues, direct, first, rules>>
        /\ UNCHANGED api

GetReadinessLevel ==
    \E score \in 0..100 :
        /\ returned' = [op |-> "_get_readiness_level", args |-> score,
                        val |-> _get_readiness_level(score), held |-> 0]
        /\ UNCHANGED <<df, issues, direct, first, rules>>
        /\ UNCHANGED api

NextAdvisor ==
    \/ Analyze
    \/ GetMlRecommendations
    \/ CalculateReadinessScore
    \/ GetReadinessLevel

SpecAdvisor == InitAdvisor /\ [][NextAdvisor]_vars

-----------------------------------------------------------------------------
(* Properties of DataValidator, checked under SpecValidator *)

\* C1: every validate_all() over the dataset returns the list the first one
\* returned, whatever the validator held when the call began (issues of an
\* earlier run or of check methods called directly), and also on a new
\* validator built from the same dataset.
C1_ValidateAllRepeatable ==
    returned.op = "validate_all" =>
        /\ first # <<>>
        /\ returned.val = first[1]

\* a run that began with issues held and returned a list of several issues
C1_Witness ==
    /\ returned.op = "validate_all"
    /\ returned.held > 0
    /\ Len(returned.val) > 1

RECURSIVE SumOver(_, _)
SumOver(f, S) ==
    IF S = {} THEN 0
    ELSE LET x == CHOOSE y \in S : TRUE IN f[x] + SumOver(f, S \ {x})

\* C2: the summary get_summary() returns agrees with the issues held:
\* total_issues = len(issues) = the sum of by_severity = the sum of by_type;
\* by_severity has exactly the keys low, medium, high; by_type has a key
\* exactly for the issue types that occur; the shape is the dataset's.
C2_SummaryConsistent ==
    returned.op = "get_summary" =>
        LET sm == returned.val
        IN /\ sm.total_issues = Len(issues)
           /\ DOMAIN sm.by_severity = {"low", "medium", "high"}
           /\ SumOver(sm.by_severity, DOMAIN sm.by_severity) = sm.total_issues
           /\ SumOver(sm.by_type, DOMAIN sm.by_type) = sm.total_issues
           /\ DOMAIN sm.by_type = {issues[k].issue_type : k \in DOMAIN issues}
           /\ \A ty \in DOMAIN sm.by_type : sm.by_type[ty] >= 1
           /\ sm.dataset_rows = NRows(df)
           /\ sm.dataset_columns = Len(df)

\* a summary, taken after a directly called check added to the issues of a
\* run, that has a severity with count zero and a type counted twice
C2_Witness ==
    /\ returned.op = "get_summary"
    /\ direct > 0
    /\ first # <<>>
    /\ Len(issues) > Len(first[1])
    /\ \E sev \in DOMAIN returned.val.by_severity : returned.val.by_severity[sev] = 0
    /\ \E ty \in DOMAIN returned.val.by_type : returned.val.by_type[ty] >= 2

IssueKeys == {"issue_type", "description", "severity", "row_number", "column_name"}
DatasetLevelTypes == {"duplicates"}
ColumnLevelTypes == {"missing_values", "type_inconsistency", "mixed_types",
                     "invalid_email_format", "invalid_phone_format",
                     "invalid_date_format", "negative_values", "outliers",
                     "empty_strings", "string_length_variation"}
RowLevelTypes == {"duplicate_row", "invalid_email"}

\* C4: every dictionary validate_dataframe returns has exactly the five keys
\* of an Issue Record; row_number is None for column-level and dataset-level
\* issues and column_name is None for dataset-level issues.
C4_IssueDictKeys ==
    returned.op = "validate_dataframe" =>
        \A k \in DOMAIN returned.val[1] :
            LET dict == returned.val[1][k]
            IN /\ DOMAIN dict = IssueKeys
               /\ dict.issue_type \in DatasetLevelTypes \cup ColumnLevelTypes \cup RowLevelTypes
               /\ dict.issue_type \in DatasetLevelTypes \cup ColumnLevelTypes
                      => dict.row_number = None
               /\ dict.issue_type \in DatasetLevelTypes => dict.column_name = None
               /\ dict.issue_type \in ColumnLevelTypes => dict.column_name # None
               /\ dict.issue_type \in RowLevelTypes => dict.row_number # None

\* a result holding a dataset-level, a column-level and a row-level issue
C4_Witness ==
    /\ returned.op = "validate_dataframe"
    /\ \E k \in DOMAIN returned.val[1] : returned.val[1][k].issue_type = "duplicates"
    /\ \E k \in DOMAIN returned.val[1] : returned.val[1][k].issue_type = "missing_values"
    /\ \E k \in DOMAIN returned.val[1] : returned.val[1][k].issue_type = "invalid_email"

\* the place of an issue type in the order of the checks of validate_all
CheckRank(type) ==
    CASE type = "missing_values" -> 1
      [] type \in {"duplicates", "duplicate_row"} -> 2
      [] type \in {"type_inconsistency", "mixed_types"} -> 3
      [] type \in {"invalid_email_format", "invalid_email"} -> 4
      [] type = "invalid_phone_format" -> 5
      [] type = "invalid_date_format" -> 6
      [] type = "negative_values" -> 7
      [] type = "outliers" -> 8
      [] type = "empty_strings" -> 9
      [] type = "string_length_variation" -> 10

OfRank(list, k) == SelectSeq(list, LAMBDA i : CheckRank(i.issue_type) = k)

\* the position in df of the column an issue names, 0 when it names none
IssueColumn(i) ==
    IF i.column_name = None THEN 0
    ELSE CHOOSE c \in DOMAIN df : df[c].name = i.column_name[1]

\* C6: the list validate_all() returns is ordered by check; within one check
\* the issues come by column and then by row (the column-level issue first);
\* and each check contributes exactly what it finds when run on its own.
C6_CheckOrder ==
    returned.op = "validate_all" =>
        LET list == returned.val
        IN /\ \A i, j \in DOMAIN list :
                  i < j => /\ CheckRank(list[i].issue_type) <= CheckRank(list[j].issue_type)
                           /\ CheckRank(list[i].issue_type) = CheckRank(list[j].issue_type)
                                  => /\ IssueColumn(list[i]) <= IssueColumn(list[j])
                                     /\ IssueColumn(list[i]) = IssueColumn(list[j])
                                            => \/ list[i].row_number = None
                                               \/ /\ list[j].row_number # None
                                                  /\ list[i].row_number[1] < list[j].row_number[1]
           /\ OfRank(list, 1) = _check_missing_values(<<>>, df)
           /\ OfRank(list, 2) = _check_duplicates(<<>>, df)
           /\ OfRank(list, 3) = _check_data_types(<<>>, df)
           /\ OfRank(list, 4) = _validate_emails(<<>>, df)
           /\ OfRank(list, 5) = _validate_phones(<<>>, df)
           /\ OfRank(list, 6) = _validate_dates(<<>>, df)
           /\ OfRank(list, 7) = _check_numeric_ranges(<<>>, df)
           /\ OfRank(list, 8) = _detect_outliers(<<>>, df)
           /\ OfRank(list, 9) = _check_empty_strings(<<>>, df)
           /\ OfRank(list, 10) = _check_string_lengths(<<>>, df)

\* a run in which every one of the ten checks reported
C6_Witness ==
    /\ returned.op = "validate_all"
    /\ {CheckRank(returned.val[k].issue_type) : k \in DOMAIN returned.val} = 1..10

-----------------------------------------------------------------------------
(* Claims about ValidationRuleEngine, checked under Spec *)

\* the issues of the last call, whichever entry point produced them
ReturnedIssues ==
    CASE returned.op = "validate" -> returned.val
      [] returned.op = "validate_dataframe" -> returned.val[1]
      [] returned.op = "validate_all" -> returned.val
      [] OTHER -> <<>>

\* C3: every Issue Record that DataValidator or ValidationRuleEngine.validate()
\* emits has a severity that is one of low, medium, high.
C3_SeverityEnumerated ==
    \A k \in DOMAIN ReturnedIssues : ReturnedIssues[k].severity \in Severities

\* a rule-engine result holding an unknown_rule_type issue and a high issue
C3_Witness ==
    /\ returned.op = "validate"
    /\ \E k \in DOMAIN returned.val : returned.val[k].issue_type = "unknown_rule_type"
    /\ \E k \in DOMAIN returned.val : returned.val[k].severity = "high"

\* C5: every Issue Record of ValidationRuleEngine.validate() carries issue_type,
\* description, severity, row_number and column_name, a field that does not
\* apply being present as null.
C5_EngineIssueFormat ==
    returned.op = "validate" =>
        \A k \in DOMAIN returned.val : IssueKeys \subseteq DOMAIN returned.val[k]

\* rule.get("enabled", True)
Enabled(rule) == GetOr(rule, "enabled", TRUE)

\* C7: a rule with enabled = false contributes no issue: validate() returns
\* what it returns for the list with the disabled rules removed, and no issue
\* bears the name of a disabled rule.
C7_DisabledRuleNoOp ==
    returned.op = "validate" =>
        /\ returned.val = validate(SelectSeq(rules, Enabled), df)
        /\ \A i \in DOMAIN rules :
               ~Enabled(rules[i]) =>
                   \A k \in DOMAIN returned.val :
                       returned.val[k].rule_name # rules[i].rule_name

\* a disabled rule next to an enabled rule that reports an issue
C7_Witness ==
    /\ returned.op = "validate"
    /\ \E i \in DOMAIN rules : ~Enabled(rules[i])
    /\ returned.val # <<>>

\* the rules of the list from position a to position b
Rules(a, b) == SubSeq(rules, a, b)

\* C8: an enabled rule of an unknown type yields exactly one issue, of type
\* unknown_rule_type and severity medium and bearing the rule's name, placed
\* between the issues of the rules before it and those of the rules after it.
C8_UnknownRuleType ==
    returned.op = "validate" =>
        \A i \in DOMAIN rules :
            Enabled(rules[i]) /\ GetOr(rules[i], "rule_type", "None") \notin RuleTypes =>
                LET before == validate(Rules(1, i - 1), df)
                    after == validate(Rules(i + 1, Len(rules)), df)
                    at == Len(before) + 1
                IN /\ Len(returned.val) = Len(before) + 1 + Len(after)
                   /\ SubSeq(returned.val, 1, at - 1) = before
                   /\ returned.val[at].issue_type = "unknown_rule_type"
                   /\ returned.val[at].severity = "medium"
                   /\ returned.val[at].rule_name = GetOr(rules[i], "rule_name", "unknown")
                   /\ SubSeq(returned.val, at + 1, Len(returned.val)) = after

\* an unknown rule followed by a rule that reports an issue
C8_Witness ==
    /\ returned.op = "validate"
    /\ Len(rules) = 2
    /\ Enabled(rules[1])
    /\ GetOr(rules[1], "rule_type", "None") \notin RuleTypes
    /\ Len(returned.val) > 1
    /\ returned.val[2].issue_type # "unknown_rule_type"

\* C9: validate() concatenates the per-rule results in rule-list order: for
\* every split of the rule list into A followed by B the result is the result
\* for A followed by the result for B.
C9_RuleOrderConcatenation ==
    returned.op = "validate" =>
        \A k \in 0..Len(rules) :
            returned.val = validate(Rules(1, k), df) \o validate(Rules(k + 1, Len(rules)), df)

\* two different rules that both report, the earlier rule's issue first
C9_Witness ==
    /\ returned.op = "validate"
    /\ Len(rules) = 2
    /\ validate(Rules(1, 1), df) # <<>>
    /\ validate(Rules(2, 2), df) # <<>>
    /\ validate(Rules(1, 1), df) # validate(Rules(2, 2), df)
    /\ returned.val[1].rule_name = rules[1].rule_name

\* the parameters the handler of a rule type is said to require
RequiredParameters(rule_type) ==
    CASE rule_type = "missing_threshold" -> {"column", "threshold"}
      [] rule_type = "format_check" -> {"column", "format"}
      [] rule_type = "value_in_list" -> {"column", "allowed_values"}
      [] OTHER -> {"column"}

\* rule.get("parameters", {})
Parameters(rule) == GetOr(rule, "parameters", [x \in {} |-> x])

\* some issue of the last validate() bears the rule's name
Reports(rule) ==
    \E k \in DOMAIN returned.val : returned.val[k].rule_name = rule.rule_name

\* the rule with one more parameter written out
WithParameter(rule, key, value) ==
    [rule EXCEPT !.parameters =
        [k \in DOMAIN rule.parameters \cup {key} |->
            IF k = key THEN value ELSE rule.parameters[k]]]

-----------------------------------------------------------------------------
(* Properties of the three components together, checked under Spec *)

\* C11: validate_all(), ValidationRuleEngine.validate() and MLAdvisor.analyze()
\* leave their inputs as they were: no step changes the caller's dataset or
\* the engine's rule list (order, enabled flags, parameter bags).
C11_InputsUnchanged == [][df' = df /\ rules' = rules]_vars

\* validate() has run a value_in_list rule as far as its membership test
C11_Witness ==
    /\ returned.op = "validate"
    /\ \E k \in DOMAIN returned.val : returned.val[k].issue_type = "invalid_value"

-----------------------------------------------------------------------------
(* Properties of MLAdvisor, checked under SpecAdvisor *)

\* C13: the readiness score of analyze() / get_ml_recommendations(), and of
\* _calculate_readiness_score for any inputs, lies within 0..100: penalties
\* never make it negative and the +5 bonus never lifts it above 100.
C13_ScoreWithinRange ==
    /\ returned.op \in {"analyze", "get_ml_recommendations"} =>
           returned.val.readiness_score \in 0..100
    /\ returned.op = "_calculate_readiness_score" => returned.val \in 0..100

\* the bonus applies to inputs without any penalty: 105 before the clamp
C13_Witness ==
    /\ returned.op = "_calculate_readiness_score"
    /\ returned.args = <<0, 1, 1, 1000>>
    /\ returned.val = 100

\* the band of a score, lower bounds inclusive
Band(score) ==
    CASE score >= 80 -> "Excellent"
      [] score >= 65 /\ score < 80 -> "Good"
      [] score >= 50 /\ score < 65 -> "Fair"
      [] score >= 35 /\ score < 50 -> "Poor"
      [] score < 35 -> "Very Poor"

\* the band a readiness level names: the text before " - "
BandOf(level) ==
    CASE level = "Excellent - Ready for ML" -> "Excellent"
      [] level = "Good - Minor preparation needed" -> "Good"
      [] level = "Fair - Moderate preparation required" -> "Fair"
      [] level = "Poor - Significant preparation needed" -> "Poor"
      [] level = "Very Poor - Major data issues" -> "Very Poor"

\* C14: the readiness level is the band of the score, lower bounds inclusive
\* (80 Excellent, 65 Good, 50 Fair, 35 Poor, below 35 Very Poor), and the
\* level analyze() returns is the band of the score in the same result.
C14_LevelMatchesScore ==
    /\ returned.op = "_get_readiness_level" => BandOf(returned.val) = Band(returned.args)
    /\ returned.op \in {"analyze", "get_ml_recommendations"} =>
           BandOf(returned.val.readiness_level) = Band(returned.val.readiness_score)

\* analyze() has returned a score that is the lower bound of its band
C14_Witness ==
    /\ returned.op = "analyze"
    /\ returned.val.readiness_score \in {80, 65, 50, 35}

-----------------------------------------------------------------------------
(* Properties of the checks of DataValidator, checked under SpecValidator *)

\* the issues of the given types that validate_all() returned for a column
IssuesFor(types, name) ==
    SelectSeq(returned.val,
              LAMBDA i : i.issue_type \in types /\ i.column_name = Some(name))

\* C15: on the end-to-end dataset validate_all() emits exactly one
\* missing_values issue for each of name, email and age, each of severity
\* medium.
C15_EndToEndMissingMedium ==
    returned.op = "validate_all" /\ df = EndToEndDataset =>
        \A name \in {<<"n", "a", "m", "e">>, <<"e", "m", "a", "i", "l">>, <<"a", "g", "e">>} :
            /\ Len(IssuesFor({"missing_values"}, name)) = 1
            /\ IssuesFor({"missing_values"}, name)[1].severity = "medium"

\* C16: on the end-to-end dataset validate_all() emits a column-level
\* type_inconsistency issue of severity high for column age that reports 1
\* non-numeric value.
C16_EndToEndTypeInconsistency ==
    returned.op = "validate_all" /\ df = EndToEndDataset =>
        \E k \in DOMAIN returned.val :
            /\ returned.val[k].issue_type = "type_inconsistency"
            /\ returned.val[k].column_name = Some(<<"a", "g", "e">>)
            /\ returned.val[k].row_number = None
            /\ returned.val[k].severity = "high"
            /\ returned.val[k].description
                   = "Column 'age' (numeric) contains 1 non-numeric value(s)"

\* C17: validate_all() holds exactly one column-level missing_values issue for
\* every column with a null and none for a column without; for m nulls in n
\* rows its severity is high iff m/n > 50%, medium iff 20% < m/n <= 50%, and low
\* otherwise.
C17_MissingValuesSeverity ==
    returned.op = "validate_all" =>
        \A c \in DOMAIN df :
            LET m == Cardinality({r \in 1..NRows(df) : df[c].vals[r] = Null})
                n == NRows(df)
                found == IssuesFor({"missing_values"}, df[c].name)
            IN /\ m = 0 => found = <<>>
               /\ m > 0 =>
                     /\ Len(found) = 1
                     /\ found[1].row_number = None
                     /\ found[1].severity = "high" <=> 2 * m > n
                     /\ found[1].severity = "medium" <=> 5 * m > n /\ 2 * m <= n
                     /\ found[1].severity = "low" <=> 5 * m <= n

\* a column with exactly 50% of its cells missing gets a medium issue
C17_Witness ==
    /\ returned.op = "validate_all"
    /\ \E k \in DOMAIN returned.val :
           /\ returned.val[k].issue_type = "missing_values"
           /\ returned.val[k].severity = "medium"
           /\ \E c \in DOMAIN df : /\ returned.val[k].column_name = Some(df[c].name)
                                   /\ 2 * NullCount(df[c].vals) = NRows(df)

\* a column _validate_emails looks at: "email" or "mail" in its lowercased
\* name and text (object) dtype
EmailNamed(c) ==
    /\ c.dtype = "object"
    /\ \/ Contains(Lower(c.name), <<"e","m","a","i","l">>)
       \/ Contains(Lower(c.name), <<"m","a","i","l">>)

\* the rows (counted from one) of a column's invalid addresses: the cells that
\* are text and do not match the email pattern
InvalidEmailRows(c) == {r \in DOMAIN c.vals : InvalidEmailCell(c.vals[r])}

\* the j-th smallest member of a set of numbers
Nth(S, j) == CHOOSE r \in S : Cardinality({x \in S : x < r}) = j - 1

\* the positions in the returned list of a column's issues of the given types
PositionsFor(types, name) ==
    {k \in DOMAIN returned.val : /\ returned.val[k].issue_type \in types
                                 /\ returned.val[k].column_name = Some(name)}

\* a set of positions without a gap
Adjacent(S) == \A a, b \in S : \A k \in a..b : k \in S

\* C18: the column-level invalid_email_format issue of an email-named column
\* reports the true total number of invalid addresses in the column, also when
\* there are more than 50 of them.
C18_EmailCountIsTotal ==
    returned.op = "validate_all" =>
        \A c \in DOMAIN df :
            EmailNamed(df[c]) /\ InvalidEmailRows(df[c]) # {} =>
                \E k \in DOMAIN returned.val :
                    /\ returned.val[k].issue_type = "invalid_email_format"
                    /\ returned.val[k].column_name = Some(df[c].name)
                    /\ returned.val[k].description
                           = "Column '" \o Text(df[c].name) \o "' contains "
                               \o ToString(Cardinality(InvalidEmailRows(df[c])))
                               \o " invalid email format(s)"

\* C19: for an email-named text column with k invalid addresses validate_all()
\* holds nothing about emails when k = 0, and otherwise one column-level
\* invalid_email_format issue (medium) directly followed by min(k, 10)
\* row-level invalid_email issues (medium, the column set), one for each of
\* the first invalid rows in ascending order with row_number counted from 0;
\* the column-level issue states k (k up to the scan limit).
C19_EmailIssues ==
    returned.op = "validate_all" =>
        \A c \in DOMAIN df :
            EmailNamed(df[c]) =>
                LET bad == InvalidEmailRows(df[c])
                    k == Cardinality(bad)
                    found == IssuesFor({"invalid_email_format", "invalid_email"}, df[c].name)
                IN /\ k = 0 => found = <<>>
                   /\ k > 0 =>
                         /\ Len(found) = 1 + Min(k, 10)
                         /\ found[1].issue_type = "invalid_email_format"
                         /\ found[1].severity = "medium"
                         /\ found[1].row_number = None
                         /\ k <= ScanCap =>
                                found[1].description
                                    = "Column '" \o Text(df[c].name) \o "' contains "
                                        \o ToString(k) \o " invalid email format(s)"
                         /\ \A j \in 1..Min(k, 10) :
                                /\ found[1 + j].issue_type = "invalid_email"
                                /\ found[1 + j].severity = "medium"
                                /\ found[1 + j].row_number = Some(Nth(bad, j) - 1)
                         /\ Adjacent(PositionsFor({"invalid_email_format", "invalid_email"},
                                                  df[c].name))

\* a column with 3 invalid addresses among 5 cells that are not null reports 3
C19_Witness ==
    /\ returned.op = "validate_all"
    /\ \E c \in DOMAIN df :
           /\ EmailNamed(df[c])
           /\ Cardinality(InvalidEmailRows(df[c])) = 3
           /\ Len(df[c].vals) - NullCount(df[c].vals) = 5
           /\ Len(IssuesFor({"invalid_email"}, df[c].name)) = 3
           /\ IssuesFor({"invalid_email_format"}, df[c].name)[1].description
                  = "Column '" \o Text(df[c].name) \o "' contains 3 invalid email format(s)"

\* the rows (counted from one) equal to an earlier row
LaterCopies == {r \in 1..NRows(df) : \E q \in 1..(r - 1) : Row(df, q) = Row(df, r)}

\* the rows (counted from one) of every duplicate group, first occurrences
\* included
GroupRows == {r \in 1..NRows(df) : \E q \in 1..NRows(df) : q # r /\ Row(df, q) = Row(df, r)}

\* the issues of the duplicates check that validate_all() returned
DuplicateIssues ==
    SelectSeq(returned.val, LAMBDA i : i.issue_type \in {"duplicates", "duplicate_row"})

\* C20: validate_all() holds nothing about duplicates when no row equals an
\* earlier row; otherwise one dataset-level duplicates issue (no row_number, no
\* column_name), high iff the duplicate rows are more than 10% of all rows and
\* medium otherwise, directly followed by min(10, g) duplicate_row issues of
\* severity medium for the first of the g rows of the duplicate groups, in
\* ascending order with row_number counted from 0.
C20_DuplicateIssues ==
    returned.op = "validate_all" =>
        LET g == Cardinality(GroupRows)
            found == DuplicateIssues
        IN /\ LaterCopies = {} => found = <<>>
           /\ LaterCopies # {} =>
                 /\ Len(found) = 1 + Min(10, g)
                 /\ found[1].issue_type = "duplicates"
                 /\ found[1].row_number = None
                 /\ found[1].column_name = None
                 /\ found[1].severity \in {"high", "medium"}
                 /\ found[1].severity = "high" <=> 10 * Cardinality(LaterCopies) > NRows(df)
                 /\ \A j \in 1..Min(10, g) :
                        /\ found[1 + j].issue_type = "duplicate_row"
                        /\ found[1 + j].severity = "medium"
                        /\ found[1 + j].row_number = Some(Nth(GroupRows, j) - 1)
                 /\ Adjacent({k \in DOMAIN returned.val :
                                 returned.val[k].issue_type \in {"duplicates", "duplicate_row"}})

\* duplicates at exactly 10% of the rows (medium, both rows of the group listed)
C20_Witness ==
    /\ returned.op = "validate_all"
    /\ 10 * Cardinality(LaterCopies) = NRows(df)
    /\ Len(DuplicateIssues) = 3
    /\ DuplicateIssues[1].severity = "medium"
    /\ DuplicateIssues[2].row_number = Some(0)

\* the columns validate_all() treats as numeric
NumericColumn(c) == c.dtype \in {"int64", "float64"}

\* the numbers of a column that lie outside [Q1 - f/2 * IQR, Q3 + f/2 * IQR]
\* (f = 3 is the 1.5 * IQR fence, f = 6 the extended 3 * IQR range)
OutsideFence(c, f) ==
    IF NotNullCount(c.vals) = 0 THEN {}
    ELSE LET Q1 == Quantile4(c.vals, 1)
             Q3 == Quantile4(c.vals, 3)
         IN {r \in DOMAIN c.vals :
                /\ IsNum(c.vals[r])
                /\ \/ 8 * c.vals[r].n < 2 * Q1 - f * (Q3 - Q1)
                   \/ 8 * c.vals[r].n > 2 * Q3 + f * (Q3 - Q1)}

NegativeRows(c) == {r \in DOMAIN c.vals : IsNum(c.vals[r]) /\ c.vals[r].n < 0}

\* C21: validate_all() holds a negative_values issue for a numeric column iff
\* its lowercased name is one of age, price, amount, count, quantity, id and it
\* has a value outside [Q1 - 3*IQR, Q3 + 3*IQR] and it has a negative value;
\* the issue is medium and states the number of negative values.
C21_NegativeValuesGated ==
    returned.op = "validate_all" =>
        \A c \in DOMAIN df :
            NumericColumn(df[c]) =>
                LET found == IssuesFor({"negative_values"}, df[c].name)
                    flagged == /\ Lower(df[c].name) \in NegativeColumns
                               /\ OutsideFence(df[c], 6) # {}
                               /\ NegativeRows(df[c]) # {}
                IN /\ ~flagged => found = <<>>
                   /\ flagged =>
                         /\ Len(found) = 1
                         /\ found[1].severity = "medium"
                         /\ found[1].row_number = None
                         /\ found[1].description
                                = "Column '" \o Text(df[c].name) \o "' contains "
                                    \o ToString(Cardinality(NegativeRows(df[c])))
                                    \o " negative value(s)"

\* a listed column with negative values and no extended-range outlier is not
\* flagged
C21_Witness ==
    /\ returned.op = "validate_all"
    /\ \E c \in DOMAIN df :
           /\ NumericColumn(df[c])
           /\ Lower(df[c].name) \in NegativeColumns
           /\ NegativeRows(df[c]) # {}
           /\ OutsideFence(df[c], 6) = {}
           /\ IssuesFor({"negative_values"}, df[c].name) = <<>>

\* C22: validate_all() holds at most one outliers issue per numeric column, and
\* one exactly when the column has more than 4 non-null values, IQR > 0 and a
\* value outside [Q1 - 1.5*IQR, Q3 + 1.5*IQR]; its severity is high iff the
\* outliers are more than 10% of the rows and medium otherwise; the column
\* 1..10, 1000 has exactly one outlier.
C22_OutlierIssues ==
    returned.op = "validate_all" =>
        \A c \in DOMAIN df :
            NumericColumn(df[c]) =>
                LET found == IssuesFor({"outliers"}, df[c].name)
                    outside == OutsideFence(df[c], 3)
                    flagged == /\ NotNullCount(df[c].vals) > 4
                               /\ Quantile4(df[c].vals, 3) > Quantile4(df[c].vals, 1)
                               /\ outside # {}
                IN /\ ~flagged => found = <<>>
                   /\ flagged =>
                         /\ Len(found) = 1
                         /\ found[1].severity \in {"high", "medium"}
                         /\ found[1].severity = "high"
                                <=> 10 * Cardinality(outside) > NRows(df)
                   /\ df = OutlierDataset /\ c = 1 =>
                         /\ outside = {11}
                         /\ Len(found) = 1
                         /\ found[1].description = "Column 'values' has 1 outlier(s) (9.1%)"

\* the column 1..10, 1000 gets one outliers issue of severity medium
C22_Witness ==
    /\ returned.op = "validate_all"
    /\ df = OutlierDataset
    /\ Len(IssuesFor({"outliers"}, <<"v", "a", "l", "u", "e", "s">>)) = 1
    /\ IssuesFor({"outliers"}, <<"v", "a", "l", "u", "e", "s">>)[1].severity = "medium"

-----------------------------------------------------------------------------
(* Properties of the rule handlers, checked under Spec *)

\* the issues validate() returned for a rule
IssuesOfRule(rule) ==
    SelectSeq(returned.val, LAMBDA i : i.rule_name = rule.rule_name)

\* an enabled rule of the given type that names a column of the dataset and
\* whose name no other rule of the list bears
AppliedOnce(i, rule_type) ==
    /\ Enabled(rules[i])
    /\ rules[i].rule_type = rule_type
    /\ ColumnIndex(df, Get(Parameters(rules[i]), "column")) # 0
    /\ \A j \in DOMAIN rules : rules[j].rule_name = rules[i].rule_name => j = i

\* the cells of the column a rule names
CellsOf(rule) == df[ColumnIndex(df, Get(Parameters(rule), "column"))].vals

\* C23: a value_in_list rule on an existing column yields exactly one
\* invalid_value issue (medium) stating the number of non-null values of the
\* column that are not in allowed_values, and none when that number is zero; a
\* missing value is never counted.
C23_NullNeverCounted ==
    returned.op = "validate" =>
        \A i \in DOMAIN rules :
            AppliedOnce(i, "value_in_list") /\ "allowed_values" \in DOMAIN Parameters(rules[i]) =>
                LET vals == CellsOf(rules[i])
                    n == Cardinality({r \in DOMAIN vals :
                             /\ NotNull(vals[r])
                             /\ vals[r] \notin Range(Parameters(rules[i]).allowed_values)})
                    found == IssuesOfRule(rules[i])
                IN /\ n = 0 => found = <<>>
                   /\ n > 0 =>
                         /\ Len(found) = 1
                         /\ found[1].issue_type = "invalid_value"
                         /\ found[1].severity = "medium"
                         /\ found[1].description
                                = "Column '" \o Text(Parameters(rules[i]).column) \o "' has "
                                    \o ToString(n) \o " values not in allowed list"

\* the number of cells of a rule's column that are numbers, or text that reads
\* as a number, and satisfy Test
CountNumbers(rule, Test(_)) ==
    Cardinality({r \in DOMAIN CellsOf(rule) :
                    /\ ToNumeric(CellsOf(rule)[r]) # None
                    /\ Test(ToNumeric(CellsOf(rule)[r])[1])})

\* C24: a range_check rule on an existing column yields a below_minimum issue
\* iff min is given and a value is strictly below it, and independently an
\* above_maximum issue iff max is given and a value is strictly above it:
\* below_minimum first, both of severity high, each stating its own count;
\* values equal to a bound, nulls and text that is no number are not counted.
C24_RangeIssues ==
    returned.op = "validate" =>
        \A i \in DOMAIN rules :
            AppliedOnce(i, "range_check") =>
                LET params == Parameters(rules[i])
                    below == IF "min" \in DOMAIN params
                             THEN CountNumbers(rules[i], LAMBDA x : x < params.min) ELSE 0
                    above == IF "max" \in DOMAIN params
                             THEN CountNumbers(rules[i], LAMBDA x : x > params.max) ELSE 0
                    found == IssuesOfRule(rules[i])
                    Issue(type, n, word, bound) ==
                        [rule_name |-> rules[i].rule_name, issue_type |-> type,
                         column_name |-> params.column,
                         description |-> "Column '" \o Text(params.column) \o "' has "
                             \o ToString(n) \o " values " \o word \o " " \o ToString(bound),
                         severity |-> "high"]
                IN found = (IF below > 0
                            THEN <<Issue("below_minimum", below, "below minimum", params.min)>>
                            ELSE <<>>)
                           \o (IF above > 0
                               THEN <<Issue("above_maximum", above, "above maximum", params.max)>>
                               ELSE <<>>)

\* both issues from one rule, below_minimum first, next to a rule whose bound
\* equals the column's smallest value and reports nothing
C24_Witness ==
    /\ returned.op = "validate"
    /\ \E i, j \in DOMAIN rules :
           /\ AppliedOnce(i, "range_check") /\ AppliedOnce(j, "range_check")
           /\ Len(IssuesOfRule(rules[i])) = 2
           /\ IssuesOfRule(rules[i])[1].issue_type = "below_minimum"
           /\ IssuesOfRule(rules[i])[2].issue_type = "above_maximum"
           /\ "min" \in DOMAIN Parameters(rules[j])
           /\ \E r \in DOMAIN CellsOf(rules[j]) :
                  ToNumeric(CellsOf(rules[j])[r]) = Some(Parameters(rules[j]).min)
           /\ IssuesOfRule(rules[j]) = <<>>

-----------------------------------------------------------------------------
(* Properties of the advisor's scoring and recommendations, checked under *)
(* SpecAdvisor                                                            *)

\* clamp(100 - M - R - N + B - C, 0, 100) for a missing percentage given in
\* hundredths of a percent
TierScore(missing, numeric, categorical, rows) ==
    LET M == CASE missing > 5000 -> 40
               [] missing > 3000 /\ missing <= 5000 -> 25
               [] missing > 1000 /\ missing <= 3000 -> 15
               [] missing > 500 /\ missing <= 1000 -> 5
               [] missing <= 500 -> 0
        R == CASE rows < 100 -> 20
               [] rows >= 100 /\ rows < 500 -> 10
               [] rows >= 500 /\ rows < 1000 -> 5
               [] rows >= 1000 -> 0
        N == IF numeric = 0 THEN 15 ELSE 0
        B == IF numeric > 0 /\ categorical > 0 THEN 5 ELSE 0
        C == IF categorical > 10 THEN 10 ELSE 0
        sum == 100 - M - R - N + B - C
    IN IF sum < 0 THEN 0 ELSE IF sum > 100 THEN 100 ELSE sum

\* C25: the readiness score is clamp(100 - M - R - N + B - C, 0, 100) with one
\* missing-data tier (40 above 50%, 25 above 30%, 15 above 10%, 5 above 5%),
\* one row tier (20 below 100 rows, 10 below 500, 5 below 1000), N = 15 without
\* a numeric column, B = 5 with both kinds of column, C = 10 with more than 10
\* categorical columns; analyze() scores its dataset by the same formula.
C25_ScoreFormula ==
    /\ returned.op = "_calculate_readiness_score" =>
           returned.val = TierScore(returned.args[1], returned.args[2],
                                    returned.args[3], returned.args[4])
    /\ returned.op \in {"analyze", "get_ml_recommendations"} =>
           returned.val.readiness_score
               = TierScore(returned.val.summary.missing_data_pct,
                           Cardinality({c \in DOMAIN df : df[c].dtype \in {"int64", "float64"}}),
                           Cardinality({c \in DOMAIN df : df[c].dtype = "object"}),
                           NRows(df))

\* no missing data, 2000 rows, both kinds of column, 10 categorical columns: 100
C25_Witness ==
    /\ returned.op = "_calculate_readiness_score"
    /\ returned.args = <<0, 1, 10, 2000>>
    /\ returned.val = 100

\* C29: the readiness score is a multiple of 5 in 15..100: the penalties that
\* apply together are at most 40 + 20 + 15 + 10 = 85, so the sum before the
\* clamp is never below 15 and only the upper clamp can take effect.
C29_ScoreMultipleOfFive ==
    LET InRange(score) == score \in 15..100 /\ score % 5 = 0
    IN /\ returned.op = "_calculate_readiness_score" =>
              /\ InRange(returned.val)
              /\ returned.val < 100 =>
                     returned.val = ScoreBeforeClamp(returned.args[1], returned.args[2],
                                                     returned.args[3], returned.args[4])
       /\ returned.op \in {"analyze", "get_ml_recommendations"} =>
              InRange(returned.val.readiness_score)

\* every penalty at once: more than 50% missing, under 100 rows, no numeric
\* column, more than 10 categorical columns
C29_Witness ==
    /\ returned.op = "_calculate_readiness_score"
    /\ returned.args[1] > 5000 /\ returned.args[2] = 0
    /\ returned.args[3] > 10 /\ returned.args[4] < 100
    /\ returned.val = 15

\* the recommendations of a kind that analyze() returned
Recommended(kind) ==
    SelectSeq(returned.val.recommendations, LAMBDA r : r.kind = kind)

\* the number of distinct values of a column, nulls apart
Distinct(c) == Cardinality({c.vals[r] : r \in {q \in DOMAIN c.vals : c.vals[q] # Null}})

\* the largest number of rows holding the same value
DominantRows(c) ==
    LET rows(v) == Cardinality({r \in DOMAIN c.vals : c.vals[r] = v})
        shares == {rows(c.vals[r]) : r \in {q \in DOMAIN c.vals : c.vals[q] # Null}}
    IN IF shares = {} THEN 0 ELSE CHOOSE n \in shares : \A m \in shares : m <= n

\* the columns (positions) that are text or integer with at most n distinct
\* values, and the first k of them
FirstCandidates(n, k) ==
    LET cand == {c \in DOMAIN df : df[c].dtype \in {"object", "int64"} /\ Distinct(df[c]) <= n}
    IN {c \in cand : Cardinality({b \in cand : b < c}) < k}

\* C26: the candidates of the class-balance check are the text or integer
\* columns with at most 20 distinct values; for each of the first 3, analyze()
\* recommends severe imbalance iff the dominant value holds more than 80% of
\* the rows, moderate imbalance iff it holds more than 70% and at most 80%,
\* and nothing otherwise.
C26_ClassBalance ==
    returned.op = "analyze" =>
        \A c \in DOMAIN df :
            LET share100 == 100 * DominantRows(df[c])
                about == SelectSeq(Recommended("Class Imbalance"),
                                   LAMBDA r : r.column = df[c].name)
                severe == c \in FirstCandidates(20, 3) /\ share100 > 80 * NRows(df)
                moderate == /\ c \in FirstCandidates(20, 3)
                            /\ share100 > 70 * NRows(df) /\ share100 <= 80 * NRows(df)
            IN /\ severe => Len(about) = 1 /\ about[1].degree = "highly imbalanced"
               /\ moderate => Len(about) = 1 /\ about[1].degree = "moderate imbalance"
               /\ ~severe /\ ~moderate => about = <<>>

\* the first n categorical (object) columns, as positions
FirstCategorical(n) ==
    LET cat == {c \in DOMAIN df : df[c].dtype = "object"}
    IN {c \in cat : Cardinality({b \in cat : b < c}) < n}

\* C27: each of the first 5 categorical columns gets one encoding
\* recommendation chosen by its number of distinct values: 2 label encoding,
\* 3-10 one-hot/ordinal, 11-50 one-hot/target/embedding, and the
\* high-cardinality advice exactly when there are more than 50; later
\* categorical columns get none.
C27_EncodingByCardinality ==
    returned.op = "analyze" =>
        \A c \in DOMAIN df :
            LET about == SelectSeq(Recommended("Encoding"), LAMBDA r : r.column = df[c].name)
                n == Distinct(df[c])
            IN /\ c \notin FirstCategorical(5) => about = <<>>
               /\ c \in FirstCategorical(5) =>
                     /\ Len(about) <= 1
                     /\ n = 2 => Len(about) = 1 /\ about[1].advice = "label encoding"
                     /\ n \in 3..10 =>
                            Len(about) = 1 /\ about[1].advice = "one-hot encoding or ordinal"
                     /\ n \in 11..50 =>
                            /\ Len(about) = 1
                            /\ about[1].advice = "one-hot, target encoding or embedding"
                     /\ (\E k \in DOMAIN about : about[k].advice = "high cardinality")
                            <=> n > 50

-----------------------------------------------------------------------------
(* RateLimitMiddleware (api/middleware/rate_limit.py) over requests of a few *)
(* clients.  Time moves in steps of TickSeconds, so that requests meet at    *)
(* the same time.time(), half a window apart and exactly a window apart.     *)

RequestsPerMinute == 2
WindowSize == 60
TickSeconds == WindowSize \div 2
MaxTicks == 4
\* a client sends at most this many limited requests within one window
MaxBurst == 3

Clients == {"10.0.0.1", "10.0.0.2"}
HealthPrefix == <<"/", "h", "e", "a", "l", "t", "h">>
Paths == {HealthPrefix, HealthPrefix \o <<"/", "d", "b">>,
          <<"/", "u", "p", "l", "o", "a", "d", "-", "d", "a", "t", "a", "/">>}
TestClientAgent == <<"t", "e", "s", "t", "c", "l", "i", "e", "n", "t">>
UserAgents == {TestClientAgent, <<"c", "u", "r", "l">>}

\* str.startswith
StartsWith(s, prefix) == Len(s) >= Len(prefix) /\ SubSeq(s, 1, Len(prefix)) = prefix

\* the entries of a client that the cleaning keeps: v >= window_start
Cleaned(stamps, current_time) == {v \in stamps : v >= current_time - WindowSize}

\* rate_limit_storage[client_ip][current_time] = current_time: the dict of a
\* client is keyed by the timestamp, so it holds each timestamp once
Recorded(stamps, current_time) == stamps \cup {current_time}

InitRateLimit ==
    /\ CoreIdle
    /\ WebhooksIdle
    /\ rate_limit_storage = [c \in Clients |-> {}]
    /\ now = 0
    /\ admitted = [c \in Clients |-> <<>>]
    /\ response = <<>>

(* RateLimitMiddleware.dispatch *)
Dispatch(client_ip, path, user_agent) ==
    LET current_time == now
        kept == Cleaned(rate_limit_storage[client_ip], current_time)
        request_count == Cardinality(kept)
    IN /\ Len(admitted[client_ip]) < MaxBurst
       /\ IF StartsWith(path, HealthPrefix) \/ Contains(Lower(user_agent), TestClientAgent)
          THEN /\ response' = [client |-> client_ip, status |-> 200, limited |-> FALSE]
               /\ UNCHANGED <<rate_limit_storage, admitted>>
          ELSE IF request_count >= RequestsPerMinute
          THEN /\ rate_limit_storage' = [rate_limit_storage EXCEPT ![client_ip] = kept]
               /\ response' = [client |-> client_ip, status |-> 429, limited |-> TRUE]
               /\ UNCHANGED admitted
          ELSE /\ rate_limit_storage' =
                      [rate_limit_storage EXCEPT ![client_ip] = Recorded(kept, current_time)]
               /\ admitted' = [admitted EXCEPT ![client_ip] = Append(@, current_time)]
               /\ response' = [client |-> client_ip, status |-> 200, limited |-> TRUE]
       /\ UNCHANGED <<now, core, webhooks, upload, attempts, stable, others>>

Request == \E c \in Clients, p \in Paths, ua \in UserAgents : Dispatch(c, p, ua)

\* time passes; the requests older than a window leave the record of admissions
Tick ==
    /\ now + TickSeconds <= MaxTicks * TickSeconds
    /\ now' = now + TickSeconds
    /\ admitted' = [c \in Clients |->
                       SelectSeq(admitted[c], LAMBDA t : t >= now' - WindowSize)]
    /\ UNCHANGED <<rate_limit_storage, response, core, webhooks, upload, attempts, stable, others>>

NextRateLimit ==
    \/ Request
    \/ Tick

SpecRateLimit == InitRateLimit /\ [][NextRateLimit]_vars

\* C28: within any window of 60 seconds the middleware passes on at most
\* requests_per_minute limited requests of one client, whatever the timing of
\* the requests, also when several requests of a client carry the same
\* timestamp.
C28_AtMostLimitPerWindow ==
    \A c \in Clients :
        Len(SelectSeq(admitted[c], LAMBDA t : t >= now - WindowSize)) <= RequestsPerMinute

-----------------------------------------------------------------------------
(* The webhook registry (api/routes/webhooks.py) and the notification loop of *)
(* upload_data (api/main.py).  The handlers run on one event loop: a handler  *)
(* runs until it awaits, so other requests are served only while upload_data  *)
(* is suspended in client.post.                                               *)
(*                                                                            *)
(* The registry is a dict.  It is modelled as CPython keeps it: the entries   *)
(* in insertion order, a deleted entry left in place as a dead slot, a new    *)
(* key appended.  A dict of at most five entries is never rebuilt, which the  *)
(* registries of the model stay within.                                       *)

MaxOtherRequests == 2

WebhookIds == {"a", "b", "c"}
CHECK_COMPLETED == "check.completed"
CHECK_FAILED == "check.failed"
WebhookConfigs == [enabled : BOOLEAN, events : {{CHECK_COMPLETED}, {CHECK_FAILED}}]

Entry(id, config) == [id |-> id, live |-> TRUE, config |-> config]

\* len(webhooks)
Used(reg) == Cardinality({k \in DOMAIN reg : reg[k].live})

\* webhook_id in webhooks
Registered(reg, id) == \E k \in DOMAIN reg : reg[k].live /\ reg[k].id = id

\* webhooks[webhook_id] = webhook_config
SetItem(reg, id, config) ==
    IF Registered(reg, id)
    THEN [k \in DOMAIN reg |-> IF reg[k].live /\ reg[k].id = id THEN Entry(id, config)
                               ELSE reg[k]]
    ELSE Append(reg, Entry(id, config))

\* del webhooks[webhook_id]
DelItem(reg, id) ==
    [k \in DOMAIN reg |-> IF reg[k].live /\ reg[k].id = id
                          THEN [reg[k] EXCEPT !.live = FALSE] ELSE reg[k]]

\* send_webhook goes on to deliver: the id is registered, the webhook enabled
\* and subscribed to the event
Delivers(reg, id, event) ==
    \E k \in DOMAIN reg : /\ reg[k].live /\ reg[k].id = id
                          /\ reg[k].config.enabled
                          /\ event \in reg[k].config.events

\* the ids that are registered, enabled and subscribed to check.completed
Subscribers(reg) == {id \in WebhookIds : Delivers(reg, id, CHECK_COMPLETED)}

InitWebhooks ==
    /\ CoreIdle
    /\ RateLimitIdle
    /\ \E n \in 0..2 : \E configs \in [1..n -> WebhookConfigs] :
           webhooks = [k \in 1..n |-> Entry(IF k = 1 THEN "a" ELSE "b", configs[k])]
    /\ upload = [pc |-> "idle", di_pos |-> 0, di_used |-> 0, webhook_id |-> "",
                 failed |-> FALSE, status |-> 0]
    /\ attempts = <<>>
    /\ stable = {}
    /\ others = 0

\* upload_data up to the notification loop: the report is generated and saved
\* (session_id is set), and the iterator over webhook_configs.keys() is made
UploadData ==
    /\ upload.pc = "idle"
    /\ upload' = [upload EXCEPT !.pc = "loop", !.di_pos = 0, !.di_used = Used(webhooks)]
    /\ attempts' = <<>>
    /\ stable' = Subscribers(webhooks)
    /\ UNCHANGED <<webhooks, others, core, rate_limit_storage, now, admitted, response>>

\* one turn of "for webhook_id in webhook_configs.keys(): await send_webhook":
\* the iterator raises RuntimeError when the dict changed size, and the
\* except clause around the loop swallows it; send_webhook returns at once
\* for a webhook that is disabled or not subscribed, and otherwise posts and
\* is suspended
LoopNext ==
    /\ upload.pc = "loop"
    /\ LET rest == {k \in DOMAIN webhooks : k > upload.di_pos /\ webhooks[k].live}
           k == CHOOSE i \in rest : \A j \in rest : i <= j
       IN IF upload.di_used # Used(webhooks) \/ rest = {}
          THEN /\ upload' = [upload EXCEPT !.pc = "done", !.status = 200]
               /\ UNCHANGED attempts
          ELSE IF Delivers(webhooks, webhooks[k].id, CHECK_COMPLETED)
          THEN /\ upload' = [upload EXCEPT !.pc = "delivering", !.di_pos = k,
                                           !.webhook_id = webhooks[k].id]
               /\ attempts' = Append(attempts, webhooks[k].id)
          ELSE /\ upload' = [upload EXCEPT !.di_pos = k]
               /\ UNCHANGED attempts
    /\ UNCHANGED <<webhooks, stable, others, core, rate_limit_storage, now, admitted, response>>

\* the post returns or fails; a failure is caught and printed in send_webhook
Delivered(ok) ==
    /\ upload.pc = "delivering"
    /\ upload' = [upload EXCEPT !.pc = "loop", !.failed = @ \/ ~ok]
    /\ UNCHANGED <<webhooks, attempts, stable, others,
                   core, rate_limit_storage, now, admitted, response>>

\* a webhook request served while upload_data is suspended
Served(reg) ==
    /\ upload.pc = "delivering"
    /\ others < MaxOtherRequests
    /\ webhooks' = reg
    /\ stable' = stable \cap Subscribers(reg)
    /\ others' = others + 1
    /\ UNCHANGED <<upload, attempts, core, rate_limit_storage, now, admitted, response>>

(* create_webhook *)
CreateWebhook == \E id \in WebhookIds, config \in WebhookConfigs :
    Served(SetItem(webhooks, id, config))

(* update_webhook *)
UpdateWebhook == \E id \in WebhookIds, config \in WebhookConfigs :
    Registered(webhooks, id) /\ Served(SetItem(webhooks, id, config))

(* delete_webhook *)
DeleteWebhook == \E id \in WebhookIds :
    Registered(webhooks, id) /\ Served(DelItem(webhooks, id))

NextWebhooks ==
    \/ UploadData
    \/ LoopNext
    \/ \E ok \in BOOLEAN : Delivered(ok)
    \/ CreateWebhook
    \/ UpdateWebhook
    \/ DeleteWebhook

SpecWebhooks == InitWebhooks /\ [][NextWebhooks]_vars

\* C30: when upload_data has answered, it has answered with success and every
\* webhook that stayed registered, enabled and subscribed to check.completed
\* during the whole loop has had exactly one delivery attempt, whatever other
\* requests created or deleted while the loop was suspended and whichever
\* deliveries failed.
C30_OneAttemptEach ==
    upload # <<>> /\ upload.pc = "done" =>
        /\ upload.status = 200
        /\ \A id \in stable :
               Cardinality({k \in DOMAIN attempts : attempts[k] = id}) = 1

=============================================================================
